---------------------------- MODULE Spec2Model ----------------------------
(***************************************************************************)
(* State-machine model of the request / order lifecycle engines and the    *)
(* stock ledger of green-chain-backend (Flask + sqlite3).                  *)
(*                                                                         *)
(* The database tables are functions from row id to record; ids come from  *)
(* AUTOINCREMENT counters and are never reused.  REAL quantities (weights, *)
(* stocks) are modelled by integers.  Columns that no handler of the two   *)
(* engines ever reads back in a condition (price, amount, method,          *)
(* freshness, class) are validated on input but not stored.                *)
(*                                                                         *)
(* Every handler opens its own sqlite3 connection (db.get_db).  SELECTs    *)
(* run in autocommit mode and see the committed tables; the first          *)
(* INSERT/UPDATE/DELETE implicitly begins a transaction that takes the     *)
(* database write lock and whose effects stay private to the connection    *)
(* until conn.commit().  SpecOrder and SpecRequest run each handler as one *)
(* atomic step; SpecOrderConc and SpecDemandConc run handlers statement by *)
(* statement in concurrent worker threads.                                 *)
(*                                                                         *)
(* Every early return of a handler is before its first write.  For each    *)
(* handler h, h_check is the chain of those early returns: it yields the   *)
(* error response, or OK when the handler goes on to write.  The atomic    *)
(* action h is enabled exactly when h_check = OK, so a refused call is a   *)
(* call that changes nothing and answers h_check.                          *)
(***************************************************************************)
EXTENDS Integers, FiniteSets, Sequences, TLC

---------------------------------------------------------------------------
(* Bounds of the model *)

\* rows ever inserted into orders, demands, requests (= supplies)
MaxOrders == 2
MaxDemands == 2
MaxRequests == 2
\* worker threads of the server that handle requests at the same time
NumThreads == 2
MaxInventory == 2

\* ids the stall_inventory table may hand out, and the values request
\* bodies take for weights and stocks, sizes and types
InventoryIds == {1}
Quantities == {1, 2}
Sizes == {"Small"}
Types == {"Organic"}

---------------------------------------------------------------------------
(* Users, roles and stalls: supplied by the identity and stall             *)
(* collaborators, fixed during a run.                                      *)

NoUser == 0
Farmers == {1, 2}
\* disposer 7 has no stall: register commits the user row before it inserts
\* the stall, so the second INSERT can fail and leave the user without one
Disposers == {3, 4, 7}
Consumers == {5, 6}
Users == Farmers \cup Disposers \cup Consumers
Callers == Users \cup {NoUser}

\* Python's None / a key absent from the JSON body
None == -99
\* a string key absent from the JSON body
Absent == "<absent>"

UserType(u) ==
    IF u \in Farmers THEN "farmer"
    ELSE IF u \in Disposers THEN "disposer"
    ELSE "consumer"

\* stalls table: stall id -> owning disposer (one stall is inserted for
\* every disposer at registration)
stalls == (1 :> 3) @@ (2 :> 4)

\* products table (product catalog collaborator): ids that exist
Products == {1, 2}

ALLOWED_METHODS == {"gcash", "cash"}
ORDER_ALLOWED_STATUS == {"processing", "accepted", "rejected", "completed", "cancelled"}
REQUEST_ALLOWED_STATUS == {"processing", "accepted", "rejected", "completed"}

_get_disposer_stall_id(user_id) ==
    LET own == {s \in DOMAIN stalls : stalls[s] = user_id}
    IN  IF own = {} THEN None
        ELSE CHOOSE s \in own : \A t \in own : s <= t

---------------------------------------------------------------------------
VARIABLES
    stall_inventory,   \* id -> [stall_id, product_id, size, type, stocks]
    nextInventoryId,
    orders,            \* id -> [consumer_id, stall_inventory_id, weight, status]
    nextOrderId,
    demands,           \* id -> [stall_id, product_id, weight]
    nextDemandId,
    supplies,          \* id -> [farmer_id, product_id, weight]
    nextSupplyId,
    requests,          \* id -> [supply_id, demand_id, status]
    nextRequestId,
    resp,              \* response of the handler that returned last
    pc,                \* worker thread -> position in its handler
    local,             \* worker thread -> the handler's local variables
    txn                \* the open write transaction (or NoTxn)

orderTables == <<stall_inventory, nextInventoryId, orders, nextOrderId>>
requestTables == <<demands, nextDemandId, supplies, nextSupplyId, requests, nextRequestId>>
threads == <<pc, local, txn>>
vars == <<stall_inventory, nextInventoryId, orders, nextOrderId,
          demands, nextDemandId, supplies, nextSupplyId, requests, nextRequestId,
          resp, pc, local, txn>>

Response(op, code, error) == [op |-> op, code |-> code, error |-> error]
NoResponse == Response("", 0, "")

EmptyTable == <<>>
Remove(table, id) == [i \in DOMAIN table \ {id} |-> table[i]]
Insert(table, id, row) == table @@ (id :> row)

RECURSIVE SumWeights(_, _)
SumWeights(table, ids) ==
    IF ids = {} THEN 0
    ELSE LET i == CHOOSE i \in ids : TRUE
         IN  table[i].weight + SumWeights(table, ids \ {i})

---------------------------------------------------------------------------
(* Authentication helpers (routes/orders.py, identical copies in the other *)
(* route modules).  OK stands for "no early return".                       *)

OK == Response("", 0, "")

_require_user(op, u) ==
    IF u = NoUser THEN Response(op, 401, "unauthorized") ELSE OK

_require_consumer(op, u) ==
    IF _require_user(op, u) # OK THEN _require_user(op, u)
    ELSE IF UserType(u) # "consumer" THEN Response(op, 403, "forbidden, consumer only")
    ELSE OK

_require_disposer(op, u) ==
    IF _require_user(op, u) # OK THEN _require_user(op, u)
    ELSE IF UserType(u) # "disposer" THEN Response(op, 403, "forbidden, disposer only")
    ELSE OK

_require_farmer(op, u) ==
    IF _require_user(op, u) # OK THEN _require_user(op, u)
    ELSE IF UserType(u) # "farmer" THEN Response(op, 403, "forbidden, farmer only")
    ELSE OK

---------------------------------------------------------------------------
(* Order Lifecycle Engine: routes/orders.py                                *)

InsufficientStocks_Unchecked(stocks, weight) == FALSE

InsufficientStocks_Strict(stocks, weight) == stocks <= weight

\* the stock test of create_order: TRUE when the order must be refused
InsufficientStocks(stocks, weight) == stocks < weight

\* create_order up to and including the stock check, against the
\* stall_inventory table `inv` its SELECT reads
create_order_check(u, d, inv) ==
    IF _require_consumer("create_order", u) # OK THEN _require_consumer("create_order", u)
    ELSE IF d.stall_inventory_id = 0 \/ d.amount = None \/ d.method = "" \/ d.weight = None
         THEN Response("create_order", 400, "stall_inventory_id, amount, method, weight are all required")
    ELSE IF d.amount < 0 THEN Response("create_order", 400, "amount must be >= 0")
    ELSE IF d.weight <= 0 THEN Response("create_order", 400, "weight must be > 0")
    ELSE IF d.method \notin ALLOWED_METHODS
         THEN Response("create_order", 400, "method must be 'gcash' or 'cash'")
    ELSE IF d.stall_inventory_id \notin DOMAIN inv
         THEN Response("create_order", 404, "stall_inventory item not found")
    ELSE IF InsufficientStocks(inv[d.stall_inventory_id].stocks, d.weight)
         THEN Response("create_order", 400, "weight exceeds available stocks")
    ELSE OK

\* INSERT INTO orders (..., status, weight, stall_inventory_id, consumer_id)
InsertOrder(ords, id, u, d) ==
    Insert(ords, id, [consumer_id |-> u, stall_inventory_id |-> d.stall_inventory_id,
                      weight |-> d.weight, status |-> "processing"])

DeductStocks_EveryRow(inv, id, weight) ==
    [i \in DOMAIN inv |-> [inv[i] EXCEPT !.stocks = @ - weight]]

\* UPDATE stall_inventory SET stocks = stocks - ? WHERE id = ?
DeductStocks(inv, id, weight) ==
    IF id \in DOMAIN inv THEN [inv EXCEPT ![id].stocks = @ - weight] ELSE inv

RestoreStocks_Skipped(inv, id, weight) == inv

RestoreStocks_Doubled(inv, id, weight) ==
    IF id \in DOMAIN inv THEN [inv EXCEPT ![id].stocks = @ + 2 * weight] ELSE inv

\* UPDATE stall_inventory SET stocks = stocks + ? WHERE id = ?
RestoreStocks(inv, id, weight) ==
    IF id \in DOMAIN inv THEN [inv EXCEPT ![id].stocks = @ + weight] ELSE inv

create_order(u, d) ==
    /\ create_order_check(u, d, stall_inventory) = OK
    /\ nextOrderId <= MaxOrders
    /\ orders' = InsertOrder(orders, nextOrderId, u, d)
    /\ nextOrderId' = nextOrderId + 1
    /\ stall_inventory' = DeductStocks(stall_inventory, d.stall_inventory_id, d.weight)
    /\ resp' = Response("create_order", 201, "")
    /\ UNCHANGED nextInventoryId
    /\ UNCHANGED <<requestTables, threads>>

delete_order_check_AnyStatus(u, order_id, ords) ==
    IF _require_consumer("delete_order", u) # OK THEN _require_consumer("delete_order", u)
    ELSE IF order_id \notin DOMAIN ords THEN Response("delete_order", 404, "order not found")
    ELSE IF ords[order_id].consumer_id # u
         THEN Response("delete_order", 403, "forbidden, not your order")
    ELSE OK

\* delete_order up to and including the status check, against the orders
\* table `ords` its SELECT reads
delete_order_check(u, order_id, ords) ==
    IF _require_consumer("delete_order", u) # OK THEN _require_consumer("delete_order", u)
    ELSE IF order_id \notin DOMAIN ords THEN Response("delete_order", 404, "order not found")
    ELSE IF ords[order_id].consumer_id # u
         THEN Response("delete_order", 403, "forbidden, not your order")
    ELSE IF ords[order_id].status # "processing"
         THEN Response("delete_order", 400, "only 'processing' orders can be deleted")
    ELSE OK

delete_order(u, order_id) ==
    /\ delete_order_check(u, order_id, orders) = OK
    /\ stall_inventory' = RestoreStocks(stall_inventory,
                                     orders[order_id].stall_inventory_id,
                                     orders[order_id].weight)
    /\ orders' = Remove(orders, order_id)
    /\ resp' = Response("delete_order", 204, "")
    /\ UNCHANGED <<nextInventoryId, nextOrderId>>
    /\ UNCHANGED <<requestTables, threads>>

\* orders o JOIN stall_inventory si JOIN stalls s WHERE o.id = ? AND s.id = ?
OrderOfStall(ords, inv, order_id, stall_id) ==
    /\ order_id \in DOMAIN ords
    /\ ords[order_id].stall_inventory_id \in DOMAIN inv
    /\ inv[ords[order_id].stall_inventory_id].stall_id \in DOMAIN stalls
    /\ inv[ords[order_id].stall_inventory_id].stall_id = stall_id

update_order_status_check(u, order_id, status, ords, inv) ==
    IF _require_disposer("update_order_status", u) # OK
         THEN _require_disposer("update_order_status", u)
    ELSE IF _get_disposer_stall_id(u) = None
         THEN Response("update_order_status", 400, "no stall found for disposer")
    ELSE IF status = "" THEN Response("update_order_status", 400, "status is required")
    ELSE IF status \notin ORDER_ALLOWED_STATUS
         THEN Response("update_order_status", 400, "status must be one of processing, accepted, rejected, completed, cancelled")
    ELSE IF ~OrderOfStall(ords, inv, order_id, _get_disposer_stall_id(u))
         THEN Response("update_order_status", 404, "order not found")
    ELSE OK

SetOrderStatus_ResetsWeight(ords, order_id, status) ==
    IF order_id \in DOMAIN ords
    THEN [ords EXCEPT ![order_id].status = status, ![order_id].weight = 1]
    ELSE ords

SetOrderStatus_EveryOrder(ords, order_id, status) ==
    [o \in DOMAIN ords |-> [ords[o] EXCEPT !.status = status]]

\* UPDATE orders SET status = ? WHERE id = ?
SetOrderStatus(ords, order_id, status) ==
    IF order_id \in DOMAIN ords THEN [ords EXCEPT ![order_id].status = status] ELSE ords

update_order_status(u, order_id, status) ==
    /\ update_order_status_check(u, order_id, status, orders, stall_inventory) = OK
    /\ orders' = SetOrderStatus(orders, order_id, status)
    /\ resp' = Response("update_order_status", 200, "")
    /\ UNCHANGED <<stall_inventory, nextInventoryId, nextOrderId, requestTables, threads>>

consumer_receive_order_check_AnyStatus(u, order_id, ords) ==
    IF _require_consumer("consumer_receive_order", u) # OK
         THEN _require_consumer("consumer_receive_order", u)
    ELSE IF order_id \notin DOMAIN ords
         THEN Response("consumer_receive_order", 404, "order not found")
    ELSE IF ords[order_id].consumer_id # u
         THEN Response("consumer_receive_order", 403, "forbidden, not your order")
    ELSE OK

consumer_receive_order_check(u, order_id, ords) ==
    IF _require_consumer("consumer_receive_order", u) # OK
         THEN _require_consumer("consumer_receive_order", u)
    ELSE IF order_id \notin DOMAIN ords
         THEN Response("consumer_receive_order", 404, "order not found")
    ELSE IF ords[order_id].consumer_id # u
         THEN Response("consumer_receive_order", 403, "forbidden, not your order")
    ELSE IF ords[order_id].status # "accepted"
         THEN Response("consumer_receive_order", 400,
                       "only 'accepted' orders can be marked as completed")
    ELSE OK

consumer_receive_order(u, order_id) ==
    /\ consumer_receive_order_check(u, order_id, orders) = OK
    /\ orders' = SetOrderStatus(orders, order_id, "completed")
    /\ resp' = Response("consumer_receive_order", 200, "")
    /\ UNCHANGED <<stall_inventory, nextInventoryId, nextOrderId, requestTables, threads>>

---------------------------------------------------------------------------
(* Direct stock edits: routes/stall_inventory.py                           *)

\* SELECT id FROM stall_inventory WHERE stall_id, product_id, size, type
\* match (AND id != except)
InventoryKeyTaken(inv, stall_id, product_id, size, type, except) ==
    \E i \in DOMAIN inv :
        /\ i # except
        /\ inv[i].stall_id = stall_id
        /\ inv[i].product_id = product_id
        /\ inv[i].size = size
        /\ inv[i].type = type

create_stall_inventory_check(u, d, inv) ==
    IF _require_disposer("create_stall_inventory", u) # OK
         THEN _require_disposer("create_stall_inventory", u)
    ELSE IF _get_disposer_stall_id(u) = None
         THEN Response("create_stall_inventory", 400, "no stall found for disposer")
    ELSE IF d.product_id = 0 \/ d.stocks = None \/ d.size = "" \/ d.type = ""
         THEN Response("create_stall_inventory", 400,
                       "product_id, stocks, size, type, freshness, class are required")
    ELSE IF d.stocks <= 0 THEN Response("create_stall_inventory", 400, "stocks must be > 0")
    ELSE IF d.product_id \notin Products
         THEN Response("create_stall_inventory", 404, "product not found")
    ELSE IF InventoryKeyTaken(inv, _get_disposer_stall_id(u), d.product_id, d.size, d.type, 0)
         THEN Response("create_stall_inventory", 400,
                       "inventory for this product with the same size and type already exists")
    ELSE OK

create_stall_inventory(u, d) ==
    /\ create_stall_inventory_check(u, d, stall_inventory) = OK
    /\ nextInventoryId \in InventoryIds
    /\ stall_inventory' = Insert(stall_inventory, nextInventoryId,
                   [stall_id |-> _get_disposer_stall_id(u), product_id |-> d.product_id,
                    size |-> d.size, type |-> d.type, stocks |-> d.stocks])
    /\ nextInventoryId' = nextInventoryId + 1
    /\ resp' = Response("create_stall_inventory", 201, "")
    /\ UNCHANGED <<orders, nextOrderId, requestTables, threads>>

\* d.stocks = None, d.size, d.type = Absent when the key is not in the body;
\* d.other = TRUE when the body holds a valid price, freshness or class
update_stall_inventory_check(u, inv_id, d, inv) ==
    IF _require_disposer("update_stall_inventory", u) # OK
         THEN _require_disposer("update_stall_inventory", u)
    ELSE IF _get_disposer_stall_id(u) = None
         THEN Response("update_stall_inventory", 400, "no stall found for disposer")
    ELSE IF inv_id \notin DOMAIN inv
         THEN Response("update_stall_inventory", 404, "inventory item not found")
    ELSE IF inv[inv_id].stall_id # _get_disposer_stall_id(u)
         THEN Response("update_stall_inventory", 403, "forbidden")
    ELSE IF d.stocks # None /\ d.stocks <= 0
         THEN Response("update_stall_inventory", 400, "stocks must be > 0")
    ELSE IF d.size = "" \/ d.type = ""
         THEN Response("update_stall_inventory", 400, "key cannot be empty")
    ELSE IF d.stocks = None /\ d.size = Absent /\ d.type = Absent /\ ~d.other
         THEN Response("update_stall_inventory", 400, "no valid fields to update")
    ELSE IF InventoryKeyTaken(inv, _get_disposer_stall_id(u), inv[inv_id].product_id,
                              IF d.size # Absent THEN d.size ELSE inv[inv_id].size,
                              IF d.type # Absent THEN d.type ELSE inv[inv_id].type, inv_id)
         THEN Response("update_stall_inventory", 400,
                       "another inventory item with this product, size and type already exists")
    ELSE OK

\* UPDATE stall_inventory SET <fields> WHERE id = ?
UpdateInventoryFields(inv, inv_id, d) ==
    IF inv_id \notin DOMAIN inv THEN inv
    ELSE [inv EXCEPT ![inv_id] =
            [@ EXCEPT !.stocks = IF d.stocks # None THEN d.stocks ELSE @,
                      !.size = IF d.size # Absent THEN d.size ELSE @,
                      !.type = IF d.type # Absent THEN d.type ELSE @]]

update_stall_inventory(u, inv_id, d) ==
    /\ update_stall_inventory_check(u, inv_id, d, stall_inventory) = OK
    /\ stall_inventory' = UpdateInventoryFields(stall_inventory, inv_id, d)
    /\ resp' = Response("update_stall_inventory", 200, "")
    /\ UNCHANGED <<nextInventoryId, orders, nextOrderId, requestTables, threads>>

delete_stall_inventory_check(u, inv_id, inv) ==
    IF _require_disposer("delete_stall_inventory", u) # OK
         THEN _require_disposer("delete_stall_inventory", u)
    ELSE IF _get_disposer_stall_id(u) = None
         THEN Response("delete_stall_inventory", 400, "no stall found for disposer")
    ELSE IF inv_id \notin DOMAIN inv
         THEN Response("delete_stall_inventory", 404, "inventory item not found")
    ELSE IF inv[inv_id].stall_id # _get_disposer_stall_id(u)
         THEN Response("delete_stall_inventory", 403, "forbidden")
    ELSE OK

delete_stall_inventory(u, inv_id) ==
    /\ delete_stall_inventory_check(u, inv_id, stall_inventory) = OK
    /\ stall_inventory' = Remove(stall_inventory, inv_id)
    /\ resp' = Response("delete_stall_inventory", 204, "")
    /\ UNCHANGED <<nextInventoryId, orders, nextOrderId, requestTables, threads>>

---------------------------------------------------------------------------
(* Request inputs of the order engine                                      *)

OrderIds == 1..MaxOrders

\* JSON bodies of POST /orders: the well-formed ones, and one body for each
\* way of being malformed
CreateOrderBodies ==
    [stall_inventory_id : InventoryIds, amount : {0}, method : ALLOWED_METHODS,
     weight : Quantities]
    \cup [stall_inventory_id : {0}, amount : {0}, method : {"cash"}, weight : {1}]
    \cup [stall_inventory_id : {1}, amount : {None, -1}, method : {"cash"}, weight : {1}]
    \cup [stall_inventory_id : {1}, amount : {0}, method : {"", "card"}, weight : {1}]
    \cup [stall_inventory_id : {1}, amount : {0}, method : {"cash"}, weight : {None, 0}]

CreateInventoryBodies ==
    [product_id : {1}, stocks : Quantities, size : Sizes, type : Types]
    \cup [product_id : {0, 3}, stocks : {1}, size : {"Small"}, type : {"Organic"}]
    \cup [product_id : {1}, stocks : {None, 0}, size : {"Small"}, type : {"Organic"}]
    \cup [product_id : {1}, stocks : {1}, size : {""}, type : {"Organic"}]

UpdateInventoryBodies ==
    [stocks : {None} \cup Quantities, size : {Absent} \cup Sizes, type : {Absent},
     other : {FALSE}]
    \cup [stocks : {0}, size : {Absent}, type : {Absent}, other : {FALSE}]
    \cup [stocks : {None}, size : {""}, type : {Absent}, other : {FALSE}]
    \cup [stocks : {None}, size : {Absent}, type : {Absent}, other : {TRUE}]

StatusInputs == ORDER_ALLOWED_STATUS \cup {"", "shipped"}

NoTxn == [holder |-> 0]

InitOrderTables ==
    /\ stall_inventory = EmptyTable
    /\ nextInventoryId = 1
    /\ orders = EmptyTable
    /\ nextOrderId = 1

InitRequestTables ==
    /\ demands = EmptyTable
    /\ nextDemandId = 1
    /\ supplies = EmptyTable
    /\ nextSupplyId = 1
    /\ requests = EmptyTable
    /\ nextRequestId = 1

InitThreads ==
    /\ pc = <<>>
    /\ local = <<>>
    /\ txn = NoTxn

InitOrder ==
    /\ InitOrderTables
    /\ InitRequestTables
    /\ InitThreads
    /\ resp = NoResponse

\* a caller whose role the handler refuses returns before the body is
\* read: one body stands for all of them
BodiesFor(u, role, bodies) ==
    IF u # NoUser /\ UserType(u) = role THEN bodies
    ELSE {CHOOSE d \in bodies : TRUE}

NextOrder ==
    \/ \E u \in Callers : \E d \in BodiesFor(u, "consumer", CreateOrderBodies) :
           create_order(u, d)
    \/ \E u \in Callers, o \in OrderIds : delete_order(u, o)
    \/ \E u \in Callers, o \in OrderIds :
           \E st \in BodiesFor(u, "disposer", StatusInputs) : update_order_status(u, o, st)
    \/ \E u \in Callers, o \in OrderIds : consumer_receive_order(u, o)
    \/ \E u \in Callers : \E d \in BodiesFor(u, "disposer", CreateInventoryBodies) :
           create_stall_inventory(u, d)
    \/ \E u \in Callers, i \in InventoryIds :
           \E d \in BodiesFor(u, "disposer", UpdateInventoryBodies) :
               update_stall_inventory(u, i, d)
    \/ \E u \in Callers, i \in InventoryIds : delete_stall_inventory(u, i)

SpecOrder == InitOrder /\ [][NextOrder]_vars

---------------------------------------------------------------------------
(* Properties of the stock ledger (SpecOrder)                              *)

OrdersOf(ords, inv_id) == {o \in DOMAIN ords : ords[o].stall_inventory_id = inv_id}

\* stocks of a row plus the weight of the orders that exist for it
Ledger(inv, ords, inv_id) == inv[inv_id].stocks + SumWeights(ords, OrdersOf(ords, inv_id))

\* (the test of resp' comes first only to spare the search over the inputs)
IsCreateOrderStep ==
    /\ resp'.op = "create_order"
    /\ \E u \in Callers, d \in CreateOrderBodies : create_order(u, d)

IsDeleteOrderStep ==
    /\ resp'.op = "delete_order"
    /\ \E u \in Callers, o \in OrderIds : delete_order(u, o)

C3_StocksNonNegative ==
    \A i \in DOMAIN stall_inventory : stall_inventory[i].stocks >= 0

\* an order took the whole stock of its row: stocks is at the boundary 0
C3_Witness ==
    \E o \in DOMAIN orders :
        /\ orders[o].stall_inventory_id \in DOMAIN stall_inventory
        /\ stall_inventory[orders[o].stall_inventory_id].stocks = 0

WellFormedOrderBodies ==
    [stall_inventory_id : InventoryIds, amount : {0}, method : ALLOWED_METHODS,
     weight : Quantities \cup {3, 4}]

C4_Refused ==
    \A u \in Consumers, d \in WellFormedOrderBodies :
        d.stall_inventory_id \in DOMAIN stall_inventory =>
            /\ d.weight > stall_inventory[d.stall_inventory_id].stocks =>
                   create_order_check(u, d, stall_inventory)
                       = Response("create_order", 400, "weight exceeds available stocks")
            /\ d.weight = stall_inventory[d.stall_inventory_id].stocks =>
                   create_order_check(u, d, stall_inventory) = OK

C4_Step ==
    \A u \in Callers, d \in CreateOrderBodies \cup WellFormedOrderBodies :
        (/\ resp'.op = "create_order"
         /\ create_order(u, d)
         /\ d.stall_inventory_id \in DOMAIN stall_inventory) =>
            /\ d.weight <= stall_inventory[d.stall_inventory_id].stocks
            /\ d.weight = stall_inventory[d.stall_inventory_id].stocks =>
                   stall_inventory'[d.stall_inventory_id].stocks = 0

\* C4: a create_order call by a consumer with a well-formed body whose
\* weight is greater than the row's stocks is answered 400 "weight exceeds
\* available stocks", and no create_order step (whatever the caller and
\* body) inserts an order or changes stocks when the weight exceeds the
\* stocks; with weight equal to the stocks the call passes every check and
\* its step leaves stocks at 0.
C4_NoOverdraw == []C4_Refused /\ [][C4_Step]_vars

\* create_order has just taken the whole stock of a row (weight = stocks),
\* so that every further order on the row exceeds its stocks
C4_Witness ==
    /\ resp.op = "create_order"
    /\ \E o \in DOMAIN orders :
           /\ orders[o].stall_inventory_id \in DOMAIN stall_inventory
           /\ stall_inventory[orders[o].stall_inventory_id].stocks = 0
           /\ \A u \in Consumers, d \in WellFormedOrderBodies :
                  d.stall_inventory_id = orders[o].stall_inventory_id =>
                      create_order_check(u, d, stall_inventory).code = 400

---------------------------------------------------------------------------
(* Concurrent handlers of the order engine (SpecOrderConc).                *)
(*                                                                         *)
(* A worker thread runs one handler at a time on a connection of its own.  *)
(* The handler's SELECTs before its first write read the committed tables. *)
(* Its first write begins the transaction: it needs the database write     *)
(* lock, which one connection holds at a time (a connection that cannot    *)
(* get it within the busy timeout raises "database is locked").  The       *)
(* writes go to the transaction's private copy txn; commit publishes it.   *)

Threads == 1..NumThreads

Idle == [op |-> "idle"]

InFlight == {t \in Threads : pc[t] # "idle"}

\* the implicit BEGIN of the first INSERT / UPDATE / DELETE of a handler
Begin(t) ==
    [holder |-> t, stall_inventory |-> stall_inventory, orders |-> orders,
     nextOrderId |-> nextOrderId, demands |-> demands, nextDemandId |-> nextDemandId,
     requests |-> requests, nextRequestId |-> nextRequestId, supplies |-> supplies,
     nextSupplyId |-> nextSupplyId, nextInventoryId |-> nextInventoryId]

\* create_order, lines 161-215: authentication, validation, the SELECT of
\* the stock row and the stock check
co_select(t, u, d) ==
    /\ pc[t] = "idle"
    /\ LET err == create_order_check(u, d, stall_inventory) IN
       IF err # OK
       THEN /\ resp' = err
            /\ UNCHANGED <<pc, local>>
       ELSE /\ nextOrderId + Cardinality(InFlight) <= MaxOrders
            /\ pc' = [pc EXCEPT ![t] = "co_insert"]
            /\ local' = [local EXCEPT ![t] = [op |-> "create_order", user_id |-> u, d |-> d]]
            /\ UNCHANGED resp
    /\ UNCHANGED <<orderTables, requestTables, txn>>

\* lines 218-225: INSERT INTO orders, which begins the transaction
co_insert(t) ==
    /\ pc[t] = "co_insert"
    /\ txn = NoTxn
    /\ txn' = [Begin(t) EXCEPT
                  !.orders = InsertOrder(orders, nextOrderId, local[t].user_id, local[t].d),
                  !.nextOrderId = nextOrderId + 1]
    /\ pc' = [pc EXCEPT ![t] = "co_update"]
    /\ UNCHANGED <<orderTables, requestTables, resp, local>>

\* lines 228-231: UPDATE stall_inventory SET stocks = stocks - ?
co_update(t) ==
    /\ pc[t] = "co_update"
    /\ txn.holder = t
    /\ txn' = [txn EXCEPT !.stall_inventory =
                  DeductStocks(@, local[t].d.stall_inventory_id, local[t].d.weight)]
    /\ pc' = [pc EXCEPT ![t] = "co_commit"]
    /\ UNCHANGED <<orderTables, requestTables, resp, local>>

\* lines 237-239: conn.commit() and the 201 response
co_commit(t) ==
    /\ pc[t] = "co_commit"
    /\ txn.holder = t
    /\ stall_inventory' = txn.stall_inventory
    /\ orders' = txn.orders
    /\ nextOrderId' = txn.nextOrderId
    /\ txn' = NoTxn
    /\ pc' = [pc EXCEPT ![t] = "idle"]
    /\ local' = [local EXCEPT ![t] = Idle]
    /\ resp' = Response("create_order", 201, "")
    /\ UNCHANGED <<nextInventoryId, requestTables>>

\* sqlite3.connect(..., timeout = None): the writer waits for the lock
lock_timeout_WaitForEver(t) == FALSE /\ UNCHANGED vars

\* the first write of a handler while another connection holds the write
\* lock: sqlite3.OperationalError after the busy timeout, nothing written
lock_timeout(t) ==
    /\ pc[t] \in {"co_insert", "cud_write", "cd_update", "csr_insert_supply", "ud_update",
                "csi_insert", "usi_update", "do_restore", "uos_update", "cro_update"}
    /\ txn # NoTxn
    /\ txn.holder # t
    /\ pc' = [pc EXCEPT ![t] = "idle"]
    /\ local' = [local EXCEPT ![t] = Idle]
    /\ resp' = Response(local[t].op, 500, "database is locked")
    /\ UNCHANGED <<orderTables, requestTables, txn>>

\* one stall_inventory row per stall, created earlier through
\* create_stall_inventory; the orders of this specification go to row 1
InitOrderConc ==
    /\ \E st \in Quantities :
           stall_inventory = (1 :> [stall_id |-> 1, product_id |-> 1, size |-> "Small",
                                    type |-> "Organic", stocks |-> st])
                             @@ (2 :> [stall_id |-> 2, product_id |-> 1, size |-> "Small",
                                       type |-> "Organic", stocks |-> 2])
    /\ nextInventoryId = 3
    /\ orders = EmptyTable
    /\ nextOrderId = 1
    /\ InitRequestTables
    /\ pc = [t \in Threads |-> "idle"]
    /\ local = [t \in Threads |-> Idle]
    /\ txn = NoTxn
    /\ resp = NoResponse

NextOrderConc ==
    \/ \E t \in Threads, u \in Callers :
           \E d \in BodiesFor(u, "consumer", CreateOrderBodies) : co_select(t, u, d)
    \/ \E t \in Threads : co_insert(t)
    \/ \E t \in Threads : co_update(t)
    \/ \E t \in Threads : co_commit(t)
    \/ \E t \in Threads : lock_timeout(t)

SpecOrderConc == InitOrderConc /\ [][NextOrderConc]_vars

\* C2: concurrent create_order calls against one stall_inventory row never
\* jointly overdraw it: stocks >= 0 in every committed state.
C2_NoJointOverdraw ==
    \A t \in Threads, i \in DOMAIN stall_inventory :
        pc[t] \in {"idle", "co_insert", "co_update", "co_commit"} =>
            stall_inventory[i].stocks >= 0

---------------------------------------------------------------------------
(* Demands: routes/demands.py                                              *)

DemandsOfPair_NoneFound(dem, stall_id, product_id) == {}

\* SELECT id FROM demands WHERE stall_id = ? AND product_id = ?
DemandsOfPair(dem, stall_id, product_id) ==
    {i \in DOMAIN dem : dem[i].stall_id = stall_id /\ dem[i].product_id = product_id}

\* the 200 response of create_or_update_demand: the demand row
DemandResponse(op, id, row) ==
    [op |-> op, code |-> 200, error |-> "", id |-> id, stall_id |-> row.stall_id,
     product_id |-> row.product_id, weight |-> row.weight]

create_or_update_demand_check(u, d) ==
    IF _require_disposer("create_or_update_demand", u) # OK
         THEN _require_disposer("create_or_update_demand", u)
    ELSE IF _get_disposer_stall_id(u) = None
         THEN Response("create_or_update_demand", 400, "no stall found for disposer")
    ELSE IF d.product_id = 0 \/ d.weight = None
         THEN Response("create_or_update_demand", 400, "product_id and weight are required")
    ELSE IF d.weight <= 0
         THEN Response("create_or_update_demand", 400, "weight must be > 0")
    ELSE IF d.product_id \notin Products
         THEN Response("create_or_update_demand", 404, "product not found")
    ELSE OK

\* UPDATE demands SET weight = ? WHERE id = ?
SetDemandWeight(dem, id, weight) ==
    IF id \in DOMAIN dem THEN [dem EXCEPT ![id].weight = weight] ELSE dem

\* the row the handler updates: the one its SELECT ... LIMIT 1 returned
\* (any of the matching rows: the SELECT has no ORDER BY)
\* the id a plain INTEGER PRIMARY KEY would give: one more than the largest
\* id in the table
NewDemandId_MaxRowid(dem, next) ==
    IF DOMAIN dem = {} THEN 1
    ELSE (CHOOSE i \in DOMAIN dem : \A j \in DOMAIN dem : j <= i) + 1

\* id INTEGER PRIMARY KEY AUTOINCREMENT: one more than the largest id the
\* table ever held
NewDemandId(dem, next) == next

create_or_update_demand(u, d) ==
    /\ create_or_update_demand_check(u, d) = OK
    /\ LET stall_id == _get_disposer_stall_id(u)
           found == DemandsOfPair(demands, stall_id, d.product_id)
       IN  IF found # {}
           THEN \E id \in found :
                    /\ demands' = SetDemandWeight(demands, id, d.weight)
                    /\ resp' = DemandResponse("create_or_update_demand", id, demands'[id])
                    /\ UNCHANGED nextDemandId
           ELSE /\ nextDemandId <= MaxDemands
                /\ LET id == NewDemandId(demands, nextDemandId)
                   IN  /\ demands' = Insert(demands, id,
                              [stall_id |-> stall_id, product_id |-> d.product_id,
                               weight |-> d.weight])
                       /\ resp' = DemandResponse("create_or_update_demand", id, demands'[id])
                /\ nextDemandId' = nextDemandId + 1
    /\ UNCHANGED <<supplies, nextSupplyId, requests, nextRequestId, orderTables, threads>>

update_demand_check(u, demand_id, d, dem) ==
    IF _require_disposer("update_demand", u) # OK THEN _require_disposer("update_demand", u)
    ELSE IF _get_disposer_stall_id(u) = None
         THEN Response("update_demand", 400, "no stall found for disposer")
    ELSE IF demand_id \notin DOMAIN dem THEN Response("update_demand", 404, "demand not found")
    ELSE IF dem[demand_id].stall_id # _get_disposer_stall_id(u)
         THEN Response("update_demand", 403, "forbidden")
    ELSE IF d.weight = None THEN Response("update_demand", 400, "weight is required to update")
    ELSE IF d.weight <= 0 THEN Response("update_demand", 400, "weight must be > 0")
    ELSE OK

update_demand(u, demand_id, d) ==
    /\ update_demand_check(u, demand_id, d, demands) = OK
    /\ demands' = SetDemandWeight(demands, demand_id, d.weight)
    /\ resp' = Response("update_demand", 200, "")
    /\ UNCHANGED <<nextDemandId, supplies, nextSupplyId, requests, nextRequestId,
                   orderTables, threads>>

delete_demand_check(u, demand_id, dem) ==
    IF _require_disposer("delete_demand", u) # OK THEN _require_disposer("delete_demand", u)
    ELSE IF _get_disposer_stall_id(u) = None
         THEN Response("delete_demand", 400, "no stall found for disposer")
    ELSE IF demand_id \notin DOMAIN dem THEN Response("delete_demand", 404, "demand not found")
    ELSE IF dem[demand_id].stall_id # _get_disposer_stall_id(u)
         THEN Response("delete_demand", 403, "forbidden")
    ELSE OK

delete_demand(u, demand_id) ==
    /\ delete_demand_check(u, demand_id, demands) = OK
    /\ demands' = Remove(demands, demand_id)
    /\ resp' = Response("delete_demand", 204, "")
    /\ UNCHANGED <<nextDemandId, supplies, nextSupplyId, requests, nextRequestId,
                   orderTables, threads>>

complete_demand_check(u, demand_id, dem) ==
    IF _require_disposer("complete_demand", u) # OK THEN _require_disposer("complete_demand", u)
    ELSE IF _get_disposer_stall_id(u) = None
         THEN Response("complete_demand", 400, "no stall found for disposer")
    ELSE IF demand_id \notin DOMAIN dem \/ dem[demand_id].stall_id # _get_disposer_stall_id(u)
         THEN Response("complete_demand", 404, "demand not found")
    ELSE OK

CompleteRequests_OpenOnly(req, demand_id) ==
    [r \in DOMAIN req |->
        IF req[r].demand_id = demand_id /\ req[r].status \in {"processing", "accepted"}
        THEN [req[r] EXCEPT !.status = "completed"] ELSE req[r]]

\* UPDATE requests SET status = 'completed' WHERE demand_id = ?
CompleteRequests(req, demand_id) ==
    [r \in DOMAIN req |->
        IF req[r].demand_id = demand_id
        THEN [req[r] EXCEPT !.status = "completed"] ELSE req[r]]

complete_demand(u, demand_id) ==
    /\ complete_demand_check(u, demand_id, demands) = OK
    /\ requests' = CompleteRequests(requests, demand_id)
    /\ demands' = Remove(demands, demand_id)
    /\ resp' = Response("complete_demand", 200, "")
    /\ UNCHANGED <<nextDemandId, supplies, nextSupplyId, nextRequestId, orderTables, threads>>

---------------------------------------------------------------------------
(* Request Lifecycle Engine: routes/supplies.py, routes/requests.py        *)

WeightExceedsDemand_Never(supply_weight, demand_weight) == FALSE

WeightExceedsDemand_Inclusive(supply_weight, demand_weight) == supply_weight >= demand_weight

\* the supply / demand weight test: TRUE when the request must be refused
WeightExceedsDemand(supply_weight, demand_weight) == supply_weight > demand_weight

create_supply_and_request_check(u, d, dem) ==
    IF _require_farmer("create_supply_and_request", u) # OK
         THEN _require_farmer("create_supply_and_request", u)
    ELSE IF d.product_id = 0 \/ d.weight = None \/ d.demand_id = 0 \/ d.price = None
            \/ d.method = ""
         THEN Response("create_supply_and_request", 400,
                       "product_id, weight, demand_id, price, method are all required")
    ELSE IF d.weight <= 0
         THEN Response("create_supply_and_request", 400, "weight must be > 0")
    ELSE IF d.price < 0
         THEN Response("create_supply_and_request", 400, "price must be >= 0")
    ELSE IF d.method \notin {"gcash", "cash"}
         THEN Response("create_supply_and_request", 400, "method must be 'gcash' or 'cash'")
    ELSE IF d.product_id \notin Products
         THEN Response("create_supply_and_request", 404, "product not found")
    ELSE IF d.demand_id \notin DOMAIN dem
         THEN Response("create_supply_and_request", 404, "demand not found")
    ELSE IF dem[d.demand_id].product_id # d.product_id
         THEN Response("create_supply_and_request", 400,
                       "demand.product_id does not match product_id")
    ELSE IF WeightExceedsDemand(d.weight, dem[d.demand_id].weight)
         THEN Response("create_supply_and_request", 400,
                       "supplied weight cannot exceed demanded weight")
    ELSE OK

\* INSERT INTO requests (price, method, status, supply_id, demand_id)
InsertRequest(req, id, supply_id, demand_id) ==
    Insert(req, id, [supply_id |-> supply_id, demand_id |-> demand_id,
                     status |-> "processing"])

create_supply_and_request(u, d) ==
    /\ create_supply_and_request_check(u, d, demands) = OK
    /\ nextRequestId <= MaxRequests
    /\ supplies' = Insert(supplies, nextSupplyId,
           [farmer_id |-> u, product_id |-> d.product_id, weight |-> d.weight])
    /\ nextSupplyId' = nextSupplyId + 1
    /\ requests' = InsertRequest(requests, nextRequestId, nextSupplyId, d.demand_id)
    /\ nextRequestId' = nextRequestId + 1
    /\ resp' = Response("create_supply_and_request", 201, "")
    /\ UNCHANGED <<demands, nextDemandId, orderTables, threads>>

create_request_check(u, d, sup, dem) ==
    IF _require_farmer("create_request", u) # OK THEN _require_farmer("create_request", u)
    ELSE IF d.supply_id = 0 \/ d.demand_id = 0 \/ d.price = None \/ d.method = ""
         THEN Response("create_request", 400,
                       "supply_id, demand_id, price, method are all required")
    ELSE IF d.price < 0 THEN Response("create_request", 400, "price must be >= 0")
    ELSE IF d.method \notin ALLOWED_METHODS
         THEN Response("create_request", 400, "method must be 'gcash' or 'cash'")
    ELSE IF d.supply_id \notin DOMAIN sup
         THEN Response("create_request", 404, "supply not found")
    ELSE IF sup[d.supply_id].farmer_id # u
         THEN Response("create_request", 403, "forbidden, not your supply")
    ELSE IF d.demand_id \notin DOMAIN dem
         THEN Response("create_request", 404, "demand not found")
    ELSE IF dem[d.demand_id].product_id # sup[d.supply_id].product_id
         THEN Response("create_request", 400,
                       "demand.product_id does not match supply.product_id")
    ELSE IF WeightExceedsDemand(sup[d.supply_id].weight, dem[d.demand_id].weight)
         THEN Response("create_request", 400,
                       "supplied weight cannot exceed demanded weight")
    ELSE OK

create_request(u, d) ==
    /\ create_request_check(u, d, supplies, demands) = OK
    /\ nextRequestId <= MaxRequests
    /\ requests' = InsertRequest(requests, nextRequestId, d.supply_id, d.demand_id)
    /\ nextRequestId' = nextRequestId + 1
    /\ resp' = Response("create_request", 201, "")
    /\ UNCHANGED <<demands, nextDemandId, supplies, nextSupplyId, orderTables, threads>>

\* requests r JOIN demands d ON r.demand_id = d.id WHERE r.id = ? AND d.stall_id = ?
RequestOfStall_AnyStall(req, dem, request_id, stall_id) ==
    /\ request_id \in DOMAIN req
    /\ req[request_id].demand_id \in DOMAIN dem

RequestOfStall(req, dem, request_id, stall_id) ==
    /\ request_id \in DOMAIN req
    /\ req[request_id].demand_id \in DOMAIN dem
    /\ dem[req[request_id].demand_id].stall_id = stall_id

update_request_status_check(u, request_id, status, req, dem) ==
    IF _require_disposer("update_request_status", u) # OK
         THEN _require_disposer("update_request_status", u)
    ELSE IF _get_disposer_stall_id(u) = None
         THEN Response("update_request_status", 400, "no stall found for disposer")
    ELSE IF status = "" THEN Response("update_request_status", 400, "status is required")
    ELSE IF status \notin REQUEST_ALLOWED_STATUS
         THEN Response("update_request_status", 400, "status must be one of processing, accepted, rejected, completed")
    ELSE IF ~RequestOfStall(req, dem, request_id, _get_disposer_stall_id(u))
         THEN Response("update_request_status", 404, "request not found")
    ELSE OK

\* UPDATE requests SET status = ? WHERE id = ?
SetRequestStatus(req, request_id, status) ==
    IF request_id \in DOMAIN req THEN [req EXCEPT ![request_id].status = status] ELSE req

update_request_status(u, request_id, status) ==
    /\ update_request_status_check(u, request_id, status, requests, demands) = OK
    /\ requests' = SetRequestStatus(requests, request_id, status)
    /\ resp' = Response("update_request_status", 200, "")
    /\ UNCHANGED <<demands, nextDemandId, supplies, nextSupplyId, nextRequestId,
                   orderTables, threads>>

\* requests r JOIN supplies s ON r.supply_id = s.id WHERE r.id = ?
delete_request_check_AnyStatus(u, request_id, req, sup) ==
    IF _require_farmer("delete_request", u) # OK THEN _require_farmer("delete_request", u)
    ELSE IF request_id \notin DOMAIN req \/ req[request_id].supply_id \notin DOMAIN sup
         THEN Response("delete_request", 404, "request not found")
    ELSE IF sup[req[request_id].supply_id].farmer_id # u
         THEN Response("delete_request", 403, "forbidden, not your request")
    ELSE OK

delete_request_check(u, request_id, req, sup) ==
    IF _require_farmer("delete_request", u) # OK THEN _require_farmer("delete_request", u)
    ELSE IF request_id \notin DOMAIN req \/ req[request_id].supply_id \notin DOMAIN sup
         THEN Response("delete_request", 404, "request not found")
    ELSE IF sup[req[request_id].supply_id].farmer_id # u
         THEN Response("delete_request", 403, "forbidden, not your request")
    ELSE IF req[request_id].status # "processing"
         THEN Response("delete_request", 400, "only 'processing' requests can be deleted")
    ELSE OK

delete_request_WithSupply(u, request_id) ==
    /\ delete_request_check(u, request_id, requests, supplies) = OK
    /\ requests' = Remove(requests, request_id)
    /\ supplies' = Remove(supplies, requests[request_id].supply_id)
    /\ resp' = Response("delete_request", 204, "")
    /\ UNCHANGED <<demands, nextDemandId, nextSupplyId, nextRequestId, orderTables, threads>>

delete_request(u, request_id) ==
    /\ delete_request_check(u, request_id, requests, supplies) = OK
    /\ requests' = Remove(requests, request_id)
    /\ resp' = Response("delete_request", 204, "")
    /\ UNCHANGED <<demands, nextDemandId, supplies, nextSupplyId, nextRequestId,
                   orderTables, threads>>

---------------------------------------------------------------------------
(* Request inputs of the request engine                                    *)

DemandIds == 1..MaxDemands
RequestIds == 1..MaxRequests
SupplyIds == 1..MaxRequests

DemandBodies ==
    [product_id : Products, weight : Quantities]
    \cup [product_id : {0, 3}, weight : {1}]
    \cup [product_id : {1}, weight : {None, 0}]

UpdateDemandBodies == [weight : Quantities \cup {None, 0}]

SupplyRequestBodies ==
    [product_id : Products, weight : Quantities, demand_id : DemandIds, price : {0},
     method : {"cash"}]
    \cup [product_id : {0, 3}, weight : {1}, demand_id : {1}, price : {0}, method : {"cash"}]
    \cup [product_id : {1}, weight : {None, 0}, demand_id : {1}, price : {0}, method : {"cash"}]
    \cup [product_id : {1}, weight : {1}, demand_id : {0}, price : {0}, method : {"cash"}]
    \cup [product_id : {1}, weight : {1}, demand_id : {1}, price : {None, -1},
          method : {"cash"}]
    \cup [product_id : {1}, weight : {1}, demand_id : {1}, price : {0}, method : {"", "card"}]

RequestBodies ==
    [supply_id : SupplyIds, demand_id : DemandIds, price : {0}, method : {"cash"}]
    \cup [supply_id : {0}, demand_id : {1}, price : {0}, method : {"cash"}]
    \cup [supply_id : {1}, demand_id : {0}, price : {0}, method : {"cash"}]
    \cup [supply_id : {1}, demand_id : {1}, price : {None, -1}, method : {"cash"}]
    \cup [supply_id : {1}, demand_id : {1}, price : {0}, method : {"", "card"}]

RequestStatusInputs == REQUEST_ALLOWED_STATUS \cup {"", "cancelled"}

\* the first disposer and the first farmer send every body; the other
\* stall and the other farmer, who are there for the ownership cases, send
\* one well-formed shape each
DemandBodiesOf(u) ==
    IF u = 3 THEN DemandBodies ELSE {[product_id |-> 2, weight |-> 1]}

UpdateDemandBodiesOf(u) ==
    IF u = 3 THEN UpdateDemandBodies ELSE {[weight |-> 1]}

SupplyRequestBodiesOf(u) ==
    IF u = 1 THEN SupplyRequestBodies
    ELSE {[product_id |-> 1, weight |-> 1, demand_id |-> i, price |-> 0, method |-> "cash"] :
              i \in DemandIds}

InitRequest ==
    /\ InitOrderTables
    /\ InitRequestTables
    /\ InitThreads
    /\ resp = NoResponse

NextRequest ==
    \/ \E u \in Callers : \E d \in DemandBodiesOf(u) :
           create_or_update_demand(u, d)
    \/ \E u \in Callers, i \in DemandIds :
           \E d \in UpdateDemandBodiesOf(u) : update_demand(u, i, d)
    \/ \E u \in Callers, i \in DemandIds : delete_demand(u, i)
    \/ \E u \in Callers, i \in DemandIds : complete_demand(u, i)
    \/ \E u \in Callers : \E d \in SupplyRequestBodiesOf(u) :
           create_supply_and_request(u, d)
    \/ \E u \in Callers : \E d \in BodiesFor(u, "farmer", RequestBodies) :
           create_request(u, d)
    \/ \E u \in Callers, r \in RequestIds :
           \E st \in BodiesFor(u, "disposer", RequestStatusInputs) :
               update_request_status(u, r, st)
    \/ \E u \in Callers, r \in RequestIds : delete_request(u, r)

SpecRequest == InitRequest /\ [][NextRequest]_vars

---------------------------------------------------------------------------
(* Properties of the request lifecycle (SpecRequest)                       *)

TerminalRequestStatus == {"completed", "rejected"}

\* C6: once a Request is completed or rejected, no update_request_status
\* call changes its status again, whoever asks and whatever status is asked.
C6_Terminality ==
    [][resp'.op = "update_request_status" =>
         \A r \in DOMAIN requests :
             requests[r].status \in TerminalRequestStatus =>
                 /\ r \in DOMAIN requests'
                 /\ requests'[r].status = requests[r].status]_vars

IsCompleteDemandStep ==
    /\ resp'.op = "complete_demand"
    /\ \E u \in Disposers, i \in DOMAIN demands : complete_demand(u, i)

\* the demand a complete_demand step removes
CompletedDemands == DOMAIN demands \ DOMAIN demands'

C8_NoDanglingRequest ==
    \A r \in DOMAIN requests :
        requests[r].status # "completed" => requests[r].demand_id \in DOMAIN demands

IsUpsertStep ==
    /\ resp'.op = "create_or_update_demand"
    /\ \E u \in Disposers : \E d \in DemandBodiesOf(u) : create_or_update_demand(u, d)

\* C9: when a create_or_update_demand call follows another one of the same
\* stall for the same product with a different weight, there is exactly one
\* Demand row for that pair: it has the id the first call returned and the
\* weight of the second call.
C9_UpsertKeepsOneRow ==
    [][\A u \in Disposers : \A d \in DemandBodiesOf(u) :
         (/\ resp.op = "create_or_update_demand"
          /\ resp'.op = "create_or_update_demand"
          /\ create_or_update_demand(u, d)
          /\ _get_disposer_stall_id(u) = resp.stall_id
          /\ d.product_id = resp.product_id
          /\ d.weight # resp.weight)
         => /\ {i \in DOMAIN demands' :
                   /\ demands'[i].stall_id = resp.stall_id
                   /\ demands'[i].product_id = resp.product_id} = {resp.id}
            /\ resp'.id = resp.id
            /\ demands'[resp.id].weight = d.weight]_vars

\* the first call has returned and the second, same stall and product with
\* another weight, is accepted
C9_Witness ==
    /\ resp.op = "create_or_update_demand"
    /\ \E u \in Disposers : \E d \in DemandBodiesOf(u) :
           /\ create_or_update_demand_check(u, d) = OK
           /\ _get_disposer_stall_id(u) = resp.stall_id
           /\ d.product_id = resp.product_id
           /\ d.weight # resp.weight

---------------------------------------------------------------------------
(* Concurrent handlers of the demand routes (SpecDemandConc).              *)
(* Each handler runs on its own connection: its SELECTs read the committed *)
(* tables, its first write begins the transaction, commit publishes it.    *)

\* create_or_update_demand, lines 195-261: authentication, validation and
\* the SELECT of an existing row for (stall_id, product_id)
cud_select(t, u, d) ==
    /\ pc[t] = "idle"
    /\ LET err == create_or_update_demand_check(u, d) IN
       IF err # OK
       THEN /\ resp' = err
            /\ UNCHANGED <<pc, local>>
       ELSE LET stall_id == _get_disposer_stall_id(u)
                rows == DemandsOfPair(demands, stall_id, d.product_id)
            IN  /\ \E found \in (IF rows = {} THEN {None} ELSE rows) :
                       local' = [local EXCEPT ![t] =
                                    [op |-> "create_or_update_demand", stall_id |-> stall_id,
                                     d |-> d, found |-> found, demand_id |-> found]]
                /\ rows = {} =>
                       nextDemandId + Cardinality({o \in InFlight :
                           local[o].op = "create_or_update_demand" /\ local[o].found = None})
                         <= MaxDemands
                /\ pc' = [pc EXCEPT ![t] = "cud_write"]
                /\ UNCHANGED resp
    /\ UNCHANGED <<orderTables, requestTables, txn>>

\* lines 263-284: UPDATE demands SET weight when the SELECT found a row,
\* INSERT INTO demands when it did not
cud_write(t) ==
    /\ pc[t] = "cud_write"
    /\ txn = NoTxn
    /\ IF local[t].found # None
       THEN /\ txn' = [Begin(t) EXCEPT
                          !.demands = SetDemandWeight(demands, local[t].found, local[t].d.weight)]
            /\ UNCHANGED local
       ELSE /\ txn' = [Begin(t) EXCEPT
                          !.demands = Insert(demands, nextDemandId,
                              [stall_id |-> local[t].stall_id,
                               product_id |-> local[t].d.product_id,
                               weight |-> local[t].d.weight]),
                          !.nextDemandId = nextDemandId + 1]
            /\ local' = [local EXCEPT ![t].demand_id = nextDemandId]
    /\ pc' = [pc EXCEPT ![t] = "cud_commit"]
    /\ UNCHANGED <<orderTables, requestTables, resp>>

\* lines 274 / 284-313: conn.commit(), then the SELECT of the row for the
\* response, which fails when the row is gone
cud_commit(t) ==
    /\ pc[t] = "cud_commit"
    /\ txn.holder = t
    /\ demands' = txn.demands
    /\ nextDemandId' = txn.nextDemandId
    /\ txn' = NoTxn
    /\ pc' = [pc EXCEPT ![t] = "idle"]
    /\ local' = [local EXCEPT ![t] = Idle]
    /\ resp' = IF local[t].demand_id \in DOMAIN demands'
               THEN DemandResponse("create_or_update_demand", local[t].demand_id,
                                   demands'[local[t].demand_id])
               ELSE Response("create_or_update_demand", 500, "internal server error")
    /\ UNCHANGED <<orderTables, supplies, nextSupplyId, requests, nextRequestId>>

\* complete_demand, lines 516-539: authentication, stall and the SELECT of
\* the demand row
cd_select(t, u, demand_id) ==
    /\ pc[t] = "idle"
    /\ LET err == complete_demand_check(u, demand_id, demands) IN
       IF err # OK
       THEN /\ resp' = err
            /\ UNCHANGED <<pc, local>>
       ELSE /\ pc' = [pc EXCEPT ![t] = "cd_update"]
            /\ local' = [local EXCEPT ![t] =
                            [op |-> "complete_demand", demand_id |-> demand_id]]
            /\ UNCHANGED resp
    /\ UNCHANGED <<orderTables, requestTables, txn>>

cd_update_Autocommit(t) ==
    /\ pc[t] = "cd_update"
    /\ txn = NoTxn
    /\ requests' = CompleteRequests(requests, local[t].demand_id)
    /\ txn' = [Begin(t) EXCEPT !.requests = requests']
    /\ pc' = [pc EXCEPT ![t] = "cd_delete"]
    /\ UNCHANGED <<orderTables, demands, nextDemandId, supplies, nextSupplyId,
                   nextRequestId, resp, local>>

\* lines 541-549: UPDATE requests SET status = 'completed', which begins
\* the transaction
cd_update(t) ==
    /\ pc[t] = "cd_update"
    /\ txn = NoTxn
    /\ txn' = [Begin(t) EXCEPT !.requests = CompleteRequests(requests, local[t].demand_id)]
    /\ pc' = [pc EXCEPT ![t] = "cd_delete"]
    /\ UNCHANGED <<orderTables, requestTables, resp, local>>

\* lines 551-555: DELETE FROM demands
cd_delete(t) ==
    /\ pc[t] = "cd_delete"
    /\ txn.holder = t
    /\ txn' = [txn EXCEPT !.demands = Remove(@, local[t].demand_id)]
    /\ pc' = [pc EXCEPT ![t] = "cd_commit"]
    /\ UNCHANGED <<orderTables, requestTables, resp, local>>

\* lines 557-560: conn.commit() and the 200 response
cd_commit(t) ==
    /\ pc[t] = "cd_commit"
    /\ txn.holder = t
    /\ demands' = txn.demands
    /\ requests' = txn.requests
    /\ txn' = NoTxn
    /\ pc' = [pc EXCEPT ![t] = "idle"]
    /\ local' = [local EXCEPT ![t] = Idle]
    /\ resp' = Response("complete_demand", 200, "")
    /\ UNCHANGED <<orderTables, nextDemandId, supplies, nextSupplyId, nextRequestId>>

OpenRequestStatus == REQUEST_ALLOWED_STATUS \ {"completed"}

\* either the empty tables, or a demand of stall 1 with two requests that
\* were created through create_supply_and_request and then accepted,
\* rejected or left processing
InitDemandConc ==
    /\ InitOrderTables
    /\ \/ InitRequestTables
       \/ /\ demands = (1 :> [stall_id |-> 1, product_id |-> 1, weight |-> 2])
          /\ nextDemandId = 2
          /\ supplies = (1 :> [farmer_id |-> 1, product_id |-> 1, weight |-> 1])
                        @@ (2 :> [farmer_id |-> 2, product_id |-> 1, weight |-> 2])
          /\ nextSupplyId = 3
          /\ \E s1 \in OpenRequestStatus, s2 \in OpenRequestStatus :
                 requests = (1 :> [supply_id |-> 1, demand_id |-> 1, status |-> s1])
                            @@ (2 :> [supply_id |-> 2, demand_id |-> 1, status |-> s2])
          /\ nextRequestId = 3
    /\ pc = [t \in Threads |-> "idle"]
    /\ local = [t \in Threads |-> Idle]
    /\ txn = NoTxn
    /\ resp = NoResponse

NextDemandConc ==
    \/ \E t \in Threads, u \in Callers : \E d \in DemandBodiesOf(u) : cud_select(t, u, d)
    \/ \E t \in Threads : cud_write(t)
    \/ \E t \in Threads : cud_commit(t)
    \/ \E t \in Threads, u \in Callers, i \in DemandIds : cd_select(t, u, i)
    \/ \E t \in Threads : cd_update(t)
    \/ \E t \in Threads : cd_delete(t)
    \/ \E t \in Threads : cd_commit(t)
    \/ \E t \in Threads : lock_timeout(t)

SpecDemandConc == InitDemandConc /\ [][NextDemandConc]_vars

\* no committed state shows a half-applied completion: a Request is
\* completed exactly when its Demand row is gone
NoPartialCompletion ==
    \A r \in DOMAIN requests :
        (requests[r].status = "completed") <=> (requests[r].demand_id \notin DOMAIN demands)

\* C5: complete_demand is atomic. Its UPDATE and its DELETE change nothing
\* another handler can read, no committed state has the Requests of a demand
\* completed while the Demand row exists or the row gone while a Request of
\* it is not completed, and after its commit the Demand is absent and every
\* Request with that demand_id is completed.
C5_CompleteDemandAtomic ==
    /\ []NoPartialCompletion
    /\ [][\A t \in Threads :
            /\ (cd_update(t) \/ cd_delete(t)) => UNCHANGED <<demands, requests>>
            /\ cd_commit(t) =>
                   /\ local[t].demand_id \notin DOMAIN demands'
                   /\ \A r \in DOMAIN requests' :
                          requests'[r].demand_id = local[t].demand_id =>
                              requests'[r].status = "completed"]_vars

\* a completion of a demand with two requests has committed
C5_Witness ==
    /\ resp = Response("complete_demand", 200, "")
    /\ 1 \notin DOMAIN demands
    /\ Cardinality({r \in DOMAIN requests : requests[r].demand_id = 1
                                            /\ requests[r].status = "completed"}) = 2

\* C10: at most one Demand row per (stall_id, product_id), also when two
\* create_or_update_demand calls for the pair interleave.
C10_OneDemandPerPair ==
    \A i \in DOMAIN demands : DemandsOfPair(demands, demands[i].stall_id,
                                            demands[i].product_id) = {i}

---------------------------------------------------------------------------
(* Read handlers: routes/requests.py, routes/orders.py                     *)

\* rows of a result set ordered by id DESC
RECURSIVE OrderByIdDesc(_)
OrderByIdDesc(ids) ==
    IF ids = {} THEN <<>>
    ELSE LET m == CHOOSE i \in ids : \A j \in ids : j <= i
         IN  <<m>> \o OrderByIdDesc(ids \ {m})

\* the 200 response of a list handler: the ids of the rows, in order
ListResponse(op, ids) ==
    [op |-> op, code |-> 200, error |-> "", rows |-> OrderByIdDesc(ids)]

\* the rows of a response, none for an error
RowsOf(response) ==
    IF response.code = 200 THEN {response.rows[k] : k \in DOMAIN response.rows} ELSE {}

\* with LEFT JOIN demands, LEFT JOIN stalls
RequestBaseSelect_LeftJoin(req, sup, dem) ==
    {r \in DOMAIN req :
        /\ req[r].supply_id \in DOMAIN sup
        /\ sup[req[r].supply_id].farmer_id \in Users}

\* _REQUEST_BASE_SELECT: requests JOIN supplies JOIN users JOIN demands
\* JOIN stalls
RequestBaseSelect(req, sup, dem) ==
    {r \in DOMAIN req :
        /\ req[r].supply_id \in DOMAIN sup
        /\ sup[req[r].supply_id].farmer_id \in Users
        /\ req[r].demand_id \in DOMAIN dem
        /\ dem[req[r].demand_id].stall_id \in DOMAIN stalls}

FarmerRequests_Unfiltered(u, req, sup, dem) == RequestBaseSelect(req, sup, dem)

\* ... JOIN supplies s2 ON r.supply_id = s2.id WHERE s2.farmer_id = ?
FarmerRequests(u, req, sup, dem) ==
    {r \in RequestBaseSelect(req, sup, dem) : sup[req[r].supply_id].farmer_id = u}

\* ... JOIN demands d2 ON r.demand_id = d2.id WHERE d2.stall_id = ?
StallRequests(stall_id, req, sup, dem) ==
    {r \in RequestBaseSelect(req, sup, dem) : dem[req[r].demand_id].stall_id = stall_id}

list_requests(u, req, sup, dem) ==
    IF _require_user("list_requests", u) # OK THEN _require_user("list_requests", u)
    ELSE IF UserType(u) = "farmer"
         THEN ListResponse("list_requests", FarmerRequests(u, req, sup, dem))
    ELSE IF UserType(u) = "disposer"
         THEN IF _get_disposer_stall_id(u) = None THEN ListResponse("list_requests", {})
              ELSE ListResponse("list_requests",
                                StallRequests(_get_disposer_stall_id(u), req, sup, dem))
    ELSE Response("list_requests", 403, "forbidden")

get_request(u, request_id, req, sup, dem) ==
    IF _require_user("get_request", u) # OK THEN _require_user("get_request", u)
    ELSE IF UserType(u) = "farmer"
         THEN IF request_id \in FarmerRequests(u, req, sup, dem)
              THEN Response("get_request", 200, "")
              ELSE Response("get_request", 404, "request not found")
    ELSE IF UserType(u) = "disposer"
         THEN IF _get_disposer_stall_id(u) = None
              THEN Response("get_request", 400, "no stall found for disposer")
              ELSE IF request_id \in StallRequests(_get_disposer_stall_id(u), req, sup, dem)
              THEN Response("get_request", 200, "")
              ELSE Response("get_request", 404, "request not found")
    ELSE Response("get_request", 403, "forbidden")

\* GET /demands/<id>: demands JOIN products JOIN stalls WHERE d.id = ? AND
\* d.stall_id = ?
get_demand(u, demand_id, dem) ==
    IF _require_disposer("get_demand", u) # OK THEN _require_disposer("get_demand", u)
    ELSE IF _get_disposer_stall_id(u) = None
         THEN Response("get_demand", 400, "no stall found for disposer")
    ELSE IF /\ demand_id \in DOMAIN dem
            /\ dem[demand_id].stall_id = _get_disposer_stall_id(u)
            /\ dem[demand_id].product_id \in Products
         THEN Response("get_demand", 200, "")
    ELSE Response("get_demand", 404, "demand not found")

\* ORDER_SELECT: orders JOIN stall_inventory JOIN products JOIN stalls
OrderSelect(ords, inv) ==
    {o \in DOMAIN ords :
        /\ ords[o].stall_inventory_id \in DOMAIN inv
        /\ inv[ords[o].stall_inventory_id].product_id \in Products
        /\ inv[ords[o].stall_inventory_id].stall_id \in DOMAIN stalls}

ConsumerOrders_Unfiltered(u, ords, inv) == OrderSelect(ords, inv)

\* ... WHERE o.consumer_id = ?
ConsumerOrders(u, ords, inv) ==
    {o \in OrderSelect(ords, inv) : ords[o].consumer_id = u}

\* ... WHERE s.id = ?
StallOrders(stall_id, ords, inv) ==
    {o \in OrderSelect(ords, inv) : inv[ords[o].stall_inventory_id].stall_id = stall_id}

list_orders(u, ords, inv) ==
    IF _require_user("list_orders", u) # OK THEN _require_user("list_orders", u)
    ELSE IF UserType(u) = "consumer"
         THEN ListResponse("list_orders", ConsumerOrders(u, ords, inv))
    ELSE IF UserType(u) = "disposer"
         THEN IF _get_disposer_stall_id(u) = None THEN ListResponse("list_orders", {})
              ELSE ListResponse("list_orders",
                                StallOrders(_get_disposer_stall_id(u), ords, inv))
    ELSE Response("list_orders", 403, "forbidden")

get_order(u, order_id, ords, inv) ==
    IF _require_user("get_order", u) # OK THEN _require_user("get_order", u)
    ELSE IF UserType(u) = "consumer"
         THEN IF order_id \in ConsumerOrders(u, ords, inv)
              THEN Response("get_order", 200, "")
              ELSE Response("get_order", 404, "order not found")
    ELSE IF UserType(u) = "disposer"
         THEN IF _get_disposer_stall_id(u) = None
              THEN Response("get_order", 400, "no stall found for disposer")
              ELSE IF order_id \in StallOrders(_get_disposer_stall_id(u), ords, inv)
              THEN Response("get_order", 200, "")
              ELSE Response("get_order", 404, "order not found")
    ELSE Response("get_order", 403, "forbidden")

---------------------------------------------------------------------------
(* Ownership isolation                                                     *)

\* C11: a farmer never lists, fetches or deletes a Request whose Supply
\* belongs to another farmer: list_requests leaves it out, get_request and
\* delete_request are refused, and no delete_request step removes it.
C11_FarmerIsolation ==
    /\ [](\A f \in Farmers : \A r \in DOMAIN requests :
            supplies[requests[r].supply_id].farmer_id # f =>
                /\ r \notin RowsOf(list_requests(f, requests, supplies, demands))
                /\ get_request(f, r, requests, supplies, demands).code # 200
                /\ delete_request_check(f, r, requests, supplies) # OK)
    /\ [][\A f \in Farmers : \A r \in DOMAIN requests :
            (resp'.op = "delete_request" /\ delete_request(f, r)) =>
                /\ supplies[requests[r].supply_id].farmer_id = f
                /\ \A o \in DOMAIN requests \ {r} :
                       o \in DOMAIN requests' /\ requests'[o] = requests[o]]_vars

\* each of the two farmers has a request the other can neither see nor
\* delete, and lists his own
C11_Witness ==
    \E r1 \in DOMAIN requests, r2 \in DOMAIN requests :
        /\ supplies[requests[r1].supply_id].farmer_id = 1
        /\ supplies[requests[r2].supply_id].farmer_id = 2
        /\ requests[r1].status = "processing"
        /\ RowsOf(list_requests(1, requests, supplies, demands)) = {r1}
        /\ RowsOf(list_requests(2, requests, supplies, demands)) = {r2}

\* C12: a consumer never lists or fetches an Order of another consumer,
\* and receive and delete_order on it are refused: no such step changes the
\* Order or the stocks.
C12_ConsumerIsolation ==
    /\ [](\A c \in Consumers : \A o \in DOMAIN orders :
            orders[o].consumer_id # c =>
                /\ o \notin RowsOf(list_orders(c, orders, stall_inventory))
                /\ get_order(c, o, orders, stall_inventory).code # 200
                /\ consumer_receive_order_check(c, o, orders) # OK
                /\ delete_order_check(c, o, orders) # OK)
    /\ [][\A c \in Consumers : \A o \in DOMAIN orders :
            (/\ resp'.op \in {"delete_order", "consumer_receive_order"}
             /\ (delete_order(c, o) \/ consumer_receive_order(c, o))) =>
                /\ orders[o].consumer_id = c
                /\ \A x \in DOMAIN orders \ {o} :
                       x \in DOMAIN orders' /\ orders'[x] = orders[x]]_vars

\* each of the two consumers has an order, one of them deletable and the
\* other receivable by its owner only
C12_Witness ==
    \E o1 \in DOMAIN orders, o2 \in DOMAIN orders :
        /\ orders[o1].consumer_id = 5
        /\ orders[o2].consumer_id = 6
        /\ orders[o1].status = "processing"
        /\ orders[o2].status = "accepted"
        /\ RowsOf(list_orders(5, orders, stall_inventory)) = {o1}
        /\ RowsOf(list_orders(6, orders, stall_inventory)) = {o2}

---------------------------------------------------------------------------
(* Effects of the order handlers                                           *)

\* C13: a successful create_order publishes its effect in one step, its
\* commit: the INSERT and the UPDATE before it change nothing another
\* handler can read, and the commit adds exactly one Order (status
\* processing, the caller as consumer_id, the requested weight), lowers the
\* stocks of the referenced row by exactly that weight and changes no other
\* Order and no other stall_inventory row.
C13_CreateOrderEffect ==
    [][\A t \in Threads :
         /\ (co_insert(t) \/ co_update(t)) => UNCHANGED <<orders, stall_inventory>>
         /\ co_commit(t) =>
                LET d == local[t].d
                    id == nextOrderId
                IN  /\ id \notin DOMAIN orders
                    /\ DOMAIN orders' = DOMAIN orders \cup {id}
                    /\ orders'[id] = [consumer_id |-> local[t].user_id,
                                      stall_inventory_id |-> d.stall_inventory_id,
                                      weight |-> d.weight, status |-> "processing"]
                    /\ \A o \in DOMAIN orders : orders'[o] = orders[o]
                    /\ DOMAIN stall_inventory' = DOMAIN stall_inventory
                    /\ \A i \in DOMAIN stall_inventory :
                           stall_inventory'[i] =
                               IF i = d.stall_inventory_id
                               THEN [stall_inventory[i] EXCEPT !.stocks = @ - d.weight]
                               ELSE stall_inventory[i]]_vars

\* a second order has just been committed to row 1 while row 2 exists
C13_Witness ==
    /\ resp = Response("create_order", 201, "")
    /\ Cardinality(DOMAIN orders) = 2
    /\ 2 \in DOMAIN stall_inventory

\* create_order followed at once by delete_order of the new order, from the
\* current state: the second call is accepted and the tables are back
CreateThenDeleteRestores ==
    \A u \in Consumers, d \in CreateOrderBodies :
        create_order_check(u, d, stall_inventory) = OK =>
            LET id == nextOrderId
                ords1 == InsertOrder(orders, id, u, d)
                inv1 == DeductStocks(stall_inventory, d.stall_inventory_id, d.weight)
            IN  /\ delete_order_check(u, id, ords1) = OK
                /\ RestoreStocks(inv1, ords1[id].stall_inventory_id, ords1[id].weight)
                       = stall_inventory
                /\ Remove(ords1, id) = orders

C15_DeleteOnlyProcessing ==
    /\ [](\A o \in DOMAIN orders :
            orders[o].status # "processing" =>
                /\ \A u \in Callers : delete_order_check(u, o, orders) # OK
                /\ delete_order_check(orders[o].consumer_id, o, orders)
                       = Response("delete_order", 400,
                                  "only 'processing' orders can be deleted"))
    /\ [][\A u \in Consumers, o \in DOMAIN orders :
            (resp'.op = "delete_order" /\ delete_order(u, o)) =>
                orders[o].status = "processing"]_vars

\* two orders that are past processing, each refused to its own consumer
C15_Witness ==
    \E o1 \in DOMAIN orders, o2 \in DOMAIN orders :
        /\ orders[o1].status \in {"accepted", "rejected"}
        /\ orders[o2].status \in {"completed", "cancelled"}
        /\ delete_order_check(orders[o1].consumer_id, o1, orders).code = 400
        /\ delete_order_check(orders[o2].consumer_id, o2, orders).code = 400

\* C16: consumer_receive_order is accepted exactly when the Order belongs
\* to the calling consumer and its status is accepted; its step sets that
\* Order to completed and changes nothing else; from any other status the
\* owner is answered 400.
C16_ReceiveOnlyAccepted ==
    /\ [](\A u \in Callers, o \in OrderIds :
            /\ consumer_receive_order_check(u, o, orders) = OK <=>
                   /\ u \in Consumers
                   /\ o \in DOMAIN orders
                   /\ orders[o].consumer_id = u
                   /\ orders[o].status = "accepted"
            /\ (o \in DOMAIN orders /\ orders[o].consumer_id = u
                  /\ orders[o].status # "accepted") =>
                   consumer_receive_order_check(u, o, orders).code = 400)
    /\ [][\A u \in Consumers, o \in DOMAIN orders :
            (resp'.op = "consumer_receive_order" /\ consumer_receive_order(u, o)) =>
                /\ orders[o].status = "accepted"
                /\ orders' = [orders EXCEPT ![o].status = "completed"]
                /\ UNCHANGED stall_inventory]_vars

\* an accepted order has just been received by its consumer
C16_Witness ==
    /\ resp.op = "consumer_receive_order"
    /\ \E o \in DOMAIN orders : orders[o].status = "completed"

\* C17: every status change of an Order is processing -> accepted,
\* rejected, completed or cancelled made by update_order_status, or
\* accepted -> completed made by consumer_receive_order.
C17_OrderStateMachine ==
    [][\A o \in DOMAIN orders :
         (o \in DOMAIN orders' /\ orders'[o].status # orders[o].status) =>
             \/ /\ orders[o].status = "processing"
                /\ orders'[o].status \in {"accepted", "rejected", "completed", "cancelled"}
                /\ resp'.op = "update_order_status"
             \/ /\ orders[o].status = "accepted"
                /\ orders'[o].status = "completed"
                /\ resp'.op = "consumer_receive_order"]_vars

---------------------------------------------------------------------------
(* Creation and status of requests                                         *)

\* C18: an update_request_status step always starts from status
\* processing and never writes processing.
C18_PatchOnlyFromProcessing ==
    [][resp'.op = "update_request_status" =>
         \A u \in Disposers, r \in DOMAIN requests, st \in REQUEST_ALLOWED_STATUS :
             update_request_status(u, r, st) =>
                 requests[r].status = "processing" /\ st # "processing"]_vars

CreationWeights == Quantities \cup {3}

\* C19: a step of either creation path adds one Request with status
\* processing whose Supply and Demand have the same product_id and
\* Supply.weight <= Demand.weight; a call whose product differs from the
\* demand's or whose weight exceeds it is refused, so that it inserts
\* neither a Supply nor a Request.
C19_RequestAtCreation ==
    /\ [](\A f \in Farmers, i \in DOMAIN demands :
            /\ \A p \in Products, w \in CreationWeights :
                   (p # demands[i].product_id \/ w > demands[i].weight) =>
                       create_supply_and_request_check(f,
                           [product_id |-> p, weight |-> w, demand_id |-> i,
                            price |-> 0, method |-> "cash"], demands).code = 400
            /\ \A s \in DOMAIN supplies :
                   (\/ supplies[s].product_id # demands[i].product_id
                    \/ supplies[s].weight > demands[i].weight) =>
                       create_request_check(f,
                           [supply_id |-> s, demand_id |-> i, price |-> 0,
                            method |-> "cash"], supplies, demands) # OK)
    /\ [][resp'.op \in {"create_supply_and_request", "create_request"} =>
            LET r == nextRequestId IN
            /\ DOMAIN requests' = DOMAIN requests \cup {r}
            /\ r \notin DOMAIN requests
            /\ requests'[r].status = "processing"
            /\ requests'[r].supply_id \in DOMAIN supplies'
            /\ requests'[r].demand_id \in DOMAIN demands
            /\ supplies'[requests'[r].supply_id].product_id
                   = demands[requests'[r].demand_id].product_id
            /\ supplies'[requests'[r].supply_id].weight
                   <= demands[requests'[r].demand_id].weight
            /\ resp'.op = "create_request" => UNCHANGED supplies
            /\ resp'.op = "create_supply_and_request" =>
                   DOMAIN supplies' = DOMAIN supplies \cup {requests'[r].supply_id}]_vars

\* a request has been created by each path, the second one binding the
\* supply of the first
C19_Witness ==
    /\ resp.op = "create_request"
    /\ \E r1 \in DOMAIN requests, r2 \in DOMAIN requests :
           r1 # r2 /\ requests[r1].supply_id = requests[r2].supply_id

\* C20: the weight check of both creation paths refuses exactly when the
\* supply weight is strictly greater than the demand weight; with equal
\* weights the request is accepted.
C20_WeightCheckBoundary ==
    \A f \in Farmers, i \in DOMAIN demands :
        /\ \A w \in CreationWeights :
               LET check == create_supply_and_request_check(f,
                                [product_id |-> demands[i].product_id, weight |-> w,
                                 demand_id |-> i, price |-> 0, method |-> "cash"], demands)
               IN  /\ w > demands[i].weight <=>
                          check = Response("create_supply_and_request", 400,
                                       "supplied weight cannot exceed demanded weight")
                   /\ w <= demands[i].weight <=> check = OK
        /\ \A s \in DOMAIN supplies :
               (supplies[s].farmer_id = f
                  /\ supplies[s].product_id = demands[i].product_id) =>
                   LET check == create_request_check(f,
                                    [supply_id |-> s, demand_id |-> i, price |-> 0,
                                     method |-> "cash"], supplies, demands)
                   IN  /\ supplies[s].weight > demands[i].weight <=>
                              check = Response("create_request", 400,
                                           "supplied weight cannot exceed demanded weight")
                       /\ supplies[s].weight <= demands[i].weight <=> check = OK

\* a request links a supply and a demand of equal weight, and another
\* supply of the farmer is heavier than the demand
C20_Witness ==
    \E r \in DOMAIN requests :
        /\ requests[r].demand_id \in DOMAIN demands
        /\ supplies[requests[r].supply_id].weight = demands[requests[r].demand_id].weight
        /\ \E s \in DOMAIN supplies :
               /\ supplies[s].farmer_id = supplies[requests[r].supply_id].farmer_id
               /\ supplies[s].product_id = demands[requests[r].demand_id].product_id
               /\ supplies[s].weight > demands[requests[r].demand_id].weight

---------------------------------------------------------------------------
(* Concurrent request creation (SpecCreateConc): create_supply_and_request *)
(* next to complete_demand and update_demand, each on its own connection.  *)

\* create_supply_and_request, lines 90-176: authentication, validation and
\* the SELECTs of the product and of the demand
csr_select(t, u, d) ==
    /\ pc[t] = "idle"
    /\ LET err == create_supply_and_request_check(u, d, demands) IN
       IF err # OK
       THEN /\ resp' = err
            /\ UNCHANGED <<pc, local>>
       ELSE /\ nextRequestId + Cardinality({o \in InFlight :
                    local[o].op = "create_supply_and_request"}) <= MaxRequests
            /\ pc' = [pc EXCEPT ![t] = "csr_insert_supply"]
            /\ local' = [local EXCEPT ![t] =
                            [op |-> "create_supply_and_request", user_id |-> u, d |-> d,
                             supply_id |-> None]]
            /\ UNCHANGED resp
    /\ UNCHANGED <<orderTables, requestTables, txn>>

csr_insert_supply_Autocommit(t) ==
    /\ pc[t] = "csr_insert_supply"
    /\ txn = NoTxn
    /\ supplies' = Insert(supplies, nextSupplyId,
           [farmer_id |-> local[t].user_id, product_id |-> local[t].d.product_id,
            weight |-> local[t].d.weight])
    /\ nextSupplyId' = nextSupplyId + 1
    /\ txn' = [Begin(t) EXCEPT !.supplies = supplies', !.nextSupplyId = nextSupplyId']
    /\ local' = [local EXCEPT ![t].supply_id = nextSupplyId]
    /\ pc' = [pc EXCEPT ![t] = "csr_insert_request"]
    /\ UNCHANGED <<orderTables, demands, nextDemandId, requests, nextRequestId, resp>>

\* lines 178-187: INSERT INTO supplies, which begins the transaction
csr_insert_supply(t) ==
    /\ pc[t] = "csr_insert_supply"
    /\ txn = NoTxn
    /\ txn' = [Begin(t) EXCEPT
                  !.supplies = Insert(supplies, nextSupplyId,
                      [farmer_id |-> local[t].user_id,
                       product_id |-> local[t].d.product_id,
                       weight |-> local[t].d.weight]),
                  !.nextSupplyId = nextSupplyId + 1]
    /\ local' = [local EXCEPT ![t].supply_id = nextSupplyId]
    /\ pc' = [pc EXCEPT ![t] = "csr_insert_request"]
    /\ UNCHANGED <<orderTables, requestTables, resp>>

\* lines 189-198: INSERT INTO requests
csr_insert_request(t) ==
    /\ pc[t] = "csr_insert_request"
    /\ txn.holder = t
    /\ txn' = [txn EXCEPT
                  !.requests = InsertRequest(@, txn.nextRequestId, local[t].supply_id,
                                             local[t].d.demand_id),
                  !.nextRequestId = @ + 1]
    /\ pc' = [pc EXCEPT ![t] = "csr_commit"]
    /\ UNCHANGED <<orderTables, requestTables, resp, local>>

\* lines 200-233: conn.commit() and the 201 response
csr_commit(t) ==
    /\ pc[t] = "csr_commit"
    /\ txn.holder = t
    /\ supplies' = txn.supplies
    /\ nextSupplyId' = txn.nextSupplyId
    /\ requests' = txn.requests
    /\ nextRequestId' = txn.nextRequestId
    /\ txn' = NoTxn
    /\ pc' = [pc EXCEPT ![t] = "idle"]
    /\ local' = [local EXCEPT ![t] = Idle]
    /\ resp' = Response("create_supply_and_request", 201, "")
    /\ UNCHANGED <<orderTables, demands, nextDemandId>>

\* update_demand, lines 379-419: authentication, the SELECT of the demand
\* row and the validation of the weight
ud_select(t, u, demand_id, d) ==
    /\ pc[t] = "idle"
    /\ LET err == update_demand_check(u, demand_id, d, demands) IN
       IF err # OK
       THEN /\ resp' = err
            /\ UNCHANGED <<pc, local>>
       ELSE /\ pc' = [pc EXCEPT ![t] = "ud_update"]
            /\ local' = [local EXCEPT ![t] =
                            [op |-> "update_demand", demand_id |-> demand_id, d |-> d]]
            /\ UNCHANGED resp
    /\ UNCHANGED <<orderTables, requestTables, txn>>

\* lines 421-428: UPDATE demands SET weight, which begins the transaction
ud_update(t) ==
    /\ pc[t] = "ud_update"
    /\ txn = NoTxn
    /\ txn' = [Begin(t) EXCEPT
                  !.demands = SetDemandWeight(demands, local[t].demand_id, local[t].d.weight)]
    /\ pc' = [pc EXCEPT ![t] = "ud_commit"]
    /\ UNCHANGED <<orderTables, requestTables, resp, local>>

\* lines 429-457: conn.commit(), then the SELECT of the row for the
\* response, which fails when the row is gone
ud_commit(t) ==
    /\ pc[t] = "ud_commit"
    /\ txn.holder = t
    /\ demands' = txn.demands
    /\ txn' = NoTxn
    /\ pc' = [pc EXCEPT ![t] = "idle"]
    /\ local' = [local EXCEPT ![t] = Idle]
    /\ resp' = IF local[t].demand_id \in DOMAIN demands'
               THEN Response("update_demand", 200, "")
               ELSE Response("update_demand", 500, "internal server error")
    /\ UNCHANGED <<orderTables, nextDemandId, supplies, nextSupplyId, requests,
                   nextRequestId>>

\* a demand of stall 1 posted earlier, no supply and no request yet
InitCreateConc ==
    /\ InitOrderTables
    /\ demands = (1 :> [stall_id |-> 1, product_id |-> 1, weight |-> 2])
    /\ nextDemandId = 2
    /\ supplies = EmptyTable
    /\ nextSupplyId = 1
    /\ requests = EmptyTable
    /\ nextRequestId = 1
    /\ pc = [t \in Threads |-> "idle"]
    /\ local = [t \in Threads |-> Idle]
    /\ txn = NoTxn
    /\ resp = NoResponse

NextCreateConc ==
    \/ \E t \in Threads, u \in Callers : \E d \in SupplyRequestBodiesOf(u) :
           csr_select(t, u, d)
    \/ \E t \in Threads : csr_insert_supply(t)
    \/ \E t \in Threads : csr_insert_request(t)
    \/ \E t \in Threads : csr_commit(t)
    \/ \E t \in Threads, u \in Callers, i \in DemandIds :
           \E d \in UpdateDemandBodiesOf(u) : ud_select(t, u, i, d)
    \/ \E t \in Threads : ud_update(t)
    \/ \E t \in Threads : ud_commit(t)
    \/ \E t \in Threads, u \in Callers, i \in DemandIds : cd_select(t, u, i)
    \/ \E t \in Threads : cd_update(t)
    \/ \E t \in Threads : cd_delete(t)
    \/ \E t \in Threads : cd_commit(t)
    \/ \E t \in Threads : lock_timeout(t)

SpecCreateConc == InitCreateConc /\ [][NextCreateConc]_vars

\* C21: when create_supply_and_request commits, the Demand it checked
\* still exists and its weight is still at least the supply weight: no
\* complete_demand or update_demand committed between its check and its
\* insert.
C21_DemandCheckedAtCommit ==
    [][\A t \in Threads :
         csr_commit(t) =>
             /\ local[t].d.demand_id \in DOMAIN demands
             /\ local[t].d.weight <= demands[local[t].d.demand_id].weight]_vars

\* every committed Supply has a committed Request that references it
SupplyHasRequest ==
    \A s \in DOMAIN supplies : \E r \in DOMAIN requests : requests[r].supply_id = s

\* C26: the Supply and the Request of create_supply_and_request become
\* visible together: its INSERTs change nothing another handler can read,
\* every step that adds a Supply adds the Request that references it, and
\* no committed state has a Supply of this flow without its Request.
C26_PairedCreationAtomic ==
    /\ []SupplyHasRequest
    /\ [][/\ \A t \in Threads :
                (csr_insert_supply(t) \/ csr_insert_request(t)) =>
                    UNCHANGED <<supplies, requests>>
          /\ DOMAIN supplies' # DOMAIN supplies =>
                \E s \in DOMAIN supplies' \ DOMAIN supplies :
                \E r \in DOMAIN requests' \ DOMAIN requests :
                    /\ DOMAIN supplies' = DOMAIN supplies \cup {s}
                    /\ DOMAIN requests' = DOMAIN requests \cup {r}
                    /\ requests'[r].supply_id = s
                    /\ requests'[r].status = "processing"]_vars

\* two paired creations have committed
C26_Witness ==
    /\ resp = Response("create_supply_and_request", 201, "")
    /\ Cardinality(DOMAIN supplies) = 2
    /\ Cardinality(DOMAIN requests) = 2

---------------------------------------------------------------------------
(* Stall ownership                                                         *)

\* C22: update_request_status and complete_demand are accepted only from
\* the disposer whose stall owns the Demand; from another disposer, or a
\* disposer without a stall, they are refused, and every step of the two
\* handlers acts on a Demand of the caller's stall.
C22_OwnStallOnly ==
    /\ [](\A u \in Callers :
            /\ \A r \in RequestIds, st \in RequestStatusInputs :
                   update_request_status_check(u, r, st, requests, demands) = OK =>
                       /\ u \in Disposers
                       /\ _get_disposer_stall_id(u) # None
                       /\ r \in DOMAIN requests
                       /\ requests[r].demand_id \in DOMAIN demands
                       /\ demands[requests[r].demand_id].stall_id = _get_disposer_stall_id(u)
            /\ \A i \in DemandIds :
                   complete_demand_check(u, i, demands) = OK =>
                       /\ u \in Disposers
                       /\ _get_disposer_stall_id(u) # None
                       /\ i \in DOMAIN demands
                       /\ demands[i].stall_id = _get_disposer_stall_id(u))
    /\ [][resp'.op \in {"update_request_status", "complete_demand"} =>
            \A u \in Disposers :
                /\ \A r \in DOMAIN requests, st \in REQUEST_ALLOWED_STATUS :
                       update_request_status(u, r, st) =>
                           stalls[demands[requests[r].demand_id].stall_id] = u
                /\ \A i \in DOMAIN demands :
                       complete_demand(u, i) => stalls[demands[i].stall_id] = u]_vars

\* a request of a demand of stall 1 that the disposer of stall 2 and the
\* disposer without a stall are both refused, while stall 2 has a demand
C22_Witness ==
    \E r \in DOMAIN requests, i \in DOMAIN demands :
        /\ requests[r].demand_id \in DOMAIN demands
        /\ demands[requests[r].demand_id].stall_id = 1
        /\ demands[i].stall_id = 2
        /\ update_request_status_check(3, r, "accepted", requests, demands) = OK
        /\ update_request_status_check(4, r, "accepted", requests, demands).code = 404
        /\ update_request_status_check(7, r, "accepted", requests, demands).code = 400
        /\ complete_demand_check(4, requests[r].demand_id, demands).code = 404
        /\ complete_demand_check(7, requests[r].demand_id, demands).code = 400

---------------------------------------------------------------------------
(* Frame of the order status update                                        *)

\* C23: a step of update_order_status writes the new status into the
\* addressed Order and changes nothing else: the Order's other fields, every
\* other Order and every stall_inventory row (its stocks included) stay as
\* they were, for every new status, rejected and cancelled included.
C23_UpdateStatusFrame ==
    [][\A u \in Disposers, o \in DOMAIN orders, st \in ORDER_ALLOWED_STATUS :
         (resp'.op = "update_order_status" /\ update_order_status(u, o, st)) =>
             /\ DOMAIN orders' = DOMAIN orders
             /\ orders'[o] = [orders[o] EXCEPT !.status = st]
             /\ \A other \in DOMAIN orders \ {o} : orders'[other] = orders[other]
             /\ stall_inventory' = stall_inventory
             /\ nextOrderId' = nextOrderId]_vars

\* an order has just been rejected, and one cancelled, while the stocks they
\* deducted are still missing from the row
C23_Witness ==
    /\ resp.op = "update_order_status"
    /\ \E o1, o2 \in DOMAIN orders :
         /\ orders[o1].status = "rejected"
         /\ orders[o2].status = "cancelled"
         /\ orders[o1].stall_inventory_id = orders[o2].stall_inventory_id
         /\ orders[o1].stall_inventory_id \in DOMAIN stall_inventory
         /\ stall_inventory[orders[o1].stall_inventory_id].stocks = 0

---------------------------------------------------------------------------
(* Listing of requests                                                     *)

\* C24: list_requests answers a farmer with exactly the existing Requests
\* whose Supply is the farmer's, a disposer with exactly the existing
\* Requests whose Demand is of the disposer's stall, whatever their status,
\* and refuses every other caller.
C24_ListRequestsExact ==
    \A u \in Callers :
        LET listed == list_requests(u, requests, supplies, demands)
        IN  IF u \in Farmers
                 THEN /\ listed.code = 200
                      /\ RowsOf(listed) =
                             {r \in DOMAIN requests :
                                 /\ requests[r].supply_id \in DOMAIN supplies
                                 /\ supplies[requests[r].supply_id].farmer_id = u}
            ELSE IF u \in Disposers
                 THEN /\ listed.code = 200
                      /\ RowsOf(listed) =
                             {r \in DOMAIN requests :
                                 /\ requests[r].demand_id \in DOMAIN demands
                                 /\ demands[requests[r].demand_id].stall_id =
                                        _get_disposer_stall_id(u)}
            ELSE listed.code # 200

---------------------------------------------------------------------------
(* Refused calls (SpecRefusal)                                             *)
(* Each handler, run to its end, either passes every check and writes, or  *)
(* returns the first failing check's response.  The refused half is an     *)
(* action of its own here, so that the response of a refused call and the  *)
(* tables it leaves are both part of the step.  An early return closes the *)
(* connection after SELECTs only.                                          *)

create_order_refused_AfterInsert(u, d) ==
    /\ create_order_check(u, d, stall_inventory)
           = Response("create_order", 400, "weight exceeds available stocks")
    /\ nextOrderId <= MaxOrders
    /\ orders' = InsertOrder(orders, nextOrderId, u, d)
    /\ nextOrderId' = nextOrderId + 1
    /\ resp' = create_order_check(u, d, stall_inventory)
    /\ UNCHANGED <<stall_inventory, nextInventoryId, requestTables, threads>>

create_order_refused(u, d) ==
    /\ create_order_check(u, d, stall_inventory) # OK
    /\ resp' = create_order_check(u, d, stall_inventory)
    /\ UNCHANGED <<orderTables, requestTables, threads>>

delete_order_refused(u, order_id) ==
    /\ delete_order_check(u, order_id, orders) # OK
    /\ resp' = delete_order_check(u, order_id, orders)
    /\ UNCHANGED <<orderTables, requestTables, threads>>

update_order_status_refused(u, order_id, status) ==
    /\ update_order_status_check(u, order_id, status, orders, stall_inventory) # OK
    /\ resp' = update_order_status_check(u, order_id, status, orders, stall_inventory)
    /\ UNCHANGED <<orderTables, requestTables, threads>>

create_supply_and_request_refused(u, d) ==
    /\ create_supply_and_request_check(u, d, demands) # OK
    /\ resp' = create_supply_and_request_check(u, d, demands)
    /\ UNCHANGED <<orderTables, requestTables, threads>>

update_request_status_refused(u, request_id, status) ==
    /\ update_request_status_check(u, request_id, status, requests, demands) # OK
    /\ resp' = update_request_status_check(u, request_id, status, requests, demands)
    /\ UNCHANGED <<orderTables, requestTables, threads>>

delete_request_refused(u, request_id) ==
    /\ delete_request_check(u, request_id, requests, supplies) # OK
    /\ resp' = delete_request_check(u, request_id, requests, supplies)
    /\ UNCHANGED <<orderTables, requestTables, threads>>

complete_demand_refused(u, demand_id) ==
    /\ complete_demand_check(u, demand_id, demands) # OK
    /\ resp' = complete_demand_check(u, demand_id, demands)
    /\ UNCHANGED <<orderTables, requestTables, threads>>

delete_demand_refused(u, demand_id) ==
    /\ delete_demand_check(u, demand_id, demands) # OK
    /\ resp' = delete_demand_check(u, demand_id, demands)
    /\ UNCHANGED <<orderTables, requestTables, threads>>

\* consumer 5 sends every body, the other callers one that asks for more
\* than any row holds
RefusalOrderBodiesOf(u) ==
    IF u = 5 THEN {d \in CreateOrderBodies : d.weight # 2 /\ d.method # "gcash"}
    ELSE {[stall_inventory_id |-> 1, amount |-> 0, method |-> "cash", weight |-> 3]}

RefusalStatusInputsOf(u) ==
    IF u = 3 THEN {"accepted", "rejected", "", "shipped"} ELSE {"accepted"}

\* farmer 1 sends every body, the other callers one whose weight exceeds
\* the demand's
RefusalSupplyBodiesOf(u) ==
    IF u = 1 THEN SupplyRequestBodies
    ELSE {[product_id |-> 1, weight |-> 2, demand_id |-> 1, price |-> 0, method |-> "cash"]}

\* one stock row of stall 1 and one demand of stall 1
InitRefusal ==
    /\ stall_inventory = (1 :> [stall_id |-> 1, product_id |-> 1, size |-> "Small",
                                type |-> "Organic", stocks |-> 2])
    /\ nextInventoryId = 2
    /\ orders = EmptyTable
    /\ nextOrderId = 1
    /\ demands = (1 :> [stall_id |-> 1, product_id |-> 1, weight |-> 1])
    /\ nextDemandId = 2
    /\ supplies = EmptyTable
    /\ nextSupplyId = 1
    /\ requests = EmptyTable
    /\ nextRequestId = 1
    /\ InitThreads
    /\ resp = NoResponse

NextRefusal ==
    \/ \E u \in Callers : \E d \in RefusalOrderBodiesOf(u) : create_order(u, d)
    \/ \E u \in Callers : \E d \in RefusalOrderBodiesOf(u) : create_order_refused(u, d)
    \/ \E u \in Callers, o \in OrderIds : delete_order(u, o)
    \/ \E u \in Callers, o \in OrderIds : delete_order_refused(u, o)
    \/ \E u \in Callers, o \in OrderIds : \E st \in RefusalStatusInputsOf(u) :
           update_order_status(u, o, st)
    \/ \E u \in Callers, o \in OrderIds : \E st \in RefusalStatusInputsOf(u) :
           update_order_status_refused(u, o, st)
    \/ \E u \in Callers : \E d \in RefusalSupplyBodiesOf(u) :
           create_supply_and_request(u, d)
    \/ \E u \in Callers : \E d \in RefusalSupplyBodiesOf(u) :
           create_supply_and_request_refused(u, d)
    \/ \E u \in Callers, r \in RequestIds : \E st \in RefusalStatusInputsOf(u) :
           update_request_status(u, r, st)
    \/ \E u \in Callers, r \in RequestIds : \E st \in RefusalStatusInputsOf(u) :
           update_request_status_refused(u, r, st)
    \/ \E u \in Callers, r \in RequestIds : delete_request(u, r)
    \/ \E u \in Callers, r \in RequestIds : delete_request_refused(u, r)
    \/ \E u \in Callers, i \in DemandIds : complete_demand(u, i)
    \/ \E u \in Callers, i \in DemandIds : complete_demand_refused(u, i)
    \/ \E u \in Callers, i \in DemandIds : delete_demand(u, i)
    \/ \E u \in Callers, i \in DemandIds : delete_demand_refused(u, i)

SpecRefusal == InitRefusal /\ [][NextRefusal]_vars

\* the error responses of the claim: unauthorized, forbidden, not found,
\* validation / insufficient stock / invalid state
ErrorCodes == {400, 401, 403, 404}

\* C25: a call that returns an error leaves every Supply, Demand, Request,
\* Order and StallInventory record, and every id counter, as it was; and a
\* call whose checks do not all pass cannot write.
C25_ErrorLeavesRecords ==
    /\ [][resp'.code \in ErrorCodes => UNCHANGED <<orderTables, requestTables>>]_vars
    /\ [][<<orderTables, requestTables>>' # <<orderTables, requestTables>> =>
              resp'.code \in {200, 201, 204}]_vars

\* with an accepted order and an accepted request in the tables, the
\* farmer's delete_request has been refused for the request's status
C25_Witness ==
    /\ \E o \in DOMAIN orders : orders[o].status = "accepted"
    /\ \E r \in DOMAIN requests : requests[r].status = "accepted"
    /\ resp = Response("delete_request", 400, "only 'processing' requests can be deleted")

---------------------------------------------------------------------------
(* The ledger after a direct edit                                          *)

\* C27: right after a direct stock edit of a row (create_stall_inventory,
\* or update_stall_inventory with a stocks field) the row's stocks plus the
\* weights of its existing Orders equal the stocks value the edit wrote,
\* whether or not Orders of the row existed at the edit.  (Every other step
\* keeps the sum, C1, so this is the claim at the state where it is set.)
C27_LedgerIsLastEdit ==
    [][/\ \A u \in Disposers, i \in DOMAIN stall_inventory, d \in UpdateInventoryBodies :
            (/\ resp'.op = "update_stall_inventory"
             /\ update_stall_inventory(u, i, d)
             /\ d.stocks # None) =>
                Ledger(stall_inventory', orders', i) = d.stocks
       /\ \A u \in Disposers, d \in CreateInventoryBodies :
            (/\ resp'.op = "create_stall_inventory"
             /\ create_stall_inventory(u, d)) =>
                Ledger(stall_inventory', orders', nextInventoryId) = d.stocks]_vars

---------------------------------------------------------------------------
(* Supplies and their requests                                             *)

\* C28: no Supply is referenced by more than one existing Request.
C28_OneRequestPerSupply ==
    \A r1, r2 \in DOMAIN requests :
        requests[r1].supply_id = requests[r2].supply_id => r1 = r2

---------------------------------------------------------------------------
(* Deletion of requests                                                    *)

\* C29: delete_request is accepted exactly from the farmer of the
\* Request's Supply while the status is processing, and then removes that
\* Request and nothing else; on an accepted, rejected or completed Request
\* it is refused with 400 for the owner and leaves the Request as it was.
C29_DeleteOnlyProcessing ==
    /\ [](\A u \in Callers, r \in RequestIds :
            /\ delete_request_check(u, r, requests, supplies) = OK <=>
                   /\ u \in Farmers
                   /\ r \in DOMAIN requests
                   /\ requests[r].supply_id \in DOMAIN supplies
                   /\ supplies[requests[r].supply_id].farmer_id = u
                   /\ requests[r].status = "processing"
            /\ (/\ r \in DOMAIN requests
                /\ requests[r].status \in {"accepted", "rejected", "completed"}) =>
                   /\ delete_request_check(u, r, requests, supplies) # OK
                   /\ (/\ requests[r].supply_id \in DOMAIN supplies
                       /\ supplies[requests[r].supply_id].farmer_id = u) =>
                          delete_request_check(u, r, requests, supplies).code = 400)
    /\ [][resp'.op = "delete_request" =>
            IF resp'.code = 204
            THEN \E r \in DOMAIN requests :
                     /\ requests[r].status = "processing"
                     /\ requests' = Remove(requests, r)
                     /\ UNCHANGED <<supplies, demands>>
            ELSE UNCHANGED <<requests, supplies, demands>>]_vars

\* the farmer of a rejected request has just been refused its deletion,
\* and the request is still there beside a request still in processing
C29_Witness ==
    /\ resp = Response("delete_request", 400, "only 'processing' requests can be deleted")
    /\ \E r \in DOMAIN requests :
           /\ requests[r].status = "rejected"
           /\ supplies[requests[r].supply_id].farmer_id = 1
    /\ \E r \in DOMAIN requests : requests[r].status = "processing"

---------------------------------------------------------------------------
(* Completed demands stay gone                                             *)

\* the ids the demands table has given out
IssuedDemandIds == 1..(nextDemandId - 1)

\* every disposer that has a stall is answered 404 'demand not found'
DemandNotFound(dem, demand_id) ==
    /\ demand_id \notin DOMAIN dem
    /\ \A u \in Disposers :
           _get_disposer_stall_id(u) # None =>
               get_demand(u, demand_id, dem)
                   = Response("get_demand", 404, "demand not found")

\* C30: once complete_demand has succeeded for a demand id, get_demand of
\* that id is answered 'demand not found' in every later state: the step
\* removes the row, the ids in the table are ids the table has given out,
\* and no step (create_or_update_demand for the same stall and product
\* included) puts back a row under an id that was given out and is gone.
C30_CompletedStaysGone ==
    /\ [](DOMAIN demands \subseteq IssuedDemandIds)
    /\ [][/\ nextDemandId' >= nextDemandId
          /\ \A i \in DemandIds :
                (resp'.op = "complete_demand" /\ \E u \in Disposers : complete_demand(u, i)) =>
                    DemandNotFound(demands', i)
          /\ \A i \in IssuedDemandIds :
                i \notin DOMAIN demands => DemandNotFound(demands', i)]_vars

\* demand 1 was completed, and the same stall has created a demand for the
\* same product again: it is demand 2, and demand 1 is still not found
C30_Witness ==
    /\ resp.op = "create_or_update_demand"
    /\ DemandNotFound(demands, 1)
    /\ \E r \in DOMAIN requests :
           /\ requests[r].status = "completed"
           /\ requests[r].demand_id = 1
           /\ 2 \in DOMAIN demands
           /\ demands[2].stall_id = 1
           /\ demands[2].product_id = supplies[requests[r].supply_id].product_id

---------------------------------------------------------------------------
(* Concurrent inventory edits (SpecInventoryConc)                          *)

ConcSizes == {"Small", "Big"}

CreateInventoryConcBodies ==
    [product_id : {1}, stocks : {1}, size : ConcSizes, type : {"Organic"}]

UpdateInventoryConcBodies ==
    [stocks : {None}, size : ConcSizes, type : {Absent}, other : {FALSE}]

InventoryConcIds == 1..MaxInventory

UniqueViolation_Unchecked(inv, row, except) == FALSE

\* UNIQUE(stall_id, product_id, size, type) of the stall_inventory table,
\* tested by the engine when a row is written
UniqueViolation(inv, row, except) ==
    InventoryKeyTaken(inv, row.stall_id, row.product_id, row.size, row.type, except)

\* create_stall_inventory, lines 179-265: authentication, validation and the
\* SELECT of a row with the same key
csi_select(t, u, d) ==
    /\ pc[t] = "idle"
    /\ LET err == create_stall_inventory_check(u, d, stall_inventory) IN
       IF err # OK
       THEN /\ resp' = err
            /\ UNCHANGED <<pc, local>>
       ELSE /\ nextInventoryId + Cardinality(InFlight) <= MaxInventory
            /\ pc' = [pc EXCEPT ![t] = "csi_insert"]
            /\ local' = [local EXCEPT ![t] =
                   [op |-> "create_stall_inventory",
                    row |-> [stall_id |-> _get_disposer_stall_id(u),
                             product_id |-> d.product_id, size |-> d.size,
                             type |-> d.type, stocks |-> d.stocks]]]
            /\ UNCHANGED resp
    /\ UNCHANGED <<orderTables, requestTables, txn>>

\* lines 267-275: INSERT INTO stall_inventory, which begins the transaction;
\* sqlite3.IntegrityError when the key is in the table by now
csi_insert(t) ==
    /\ pc[t] = "csi_insert"
    /\ txn = NoTxn
    /\ IF UniqueViolation(stall_inventory, local[t].row, 0)
       THEN /\ resp' = Response("create_stall_inventory", 500, "UNIQUE constraint failed")
            /\ pc' = [pc EXCEPT ![t] = "idle"]
            /\ local' = [local EXCEPT ![t] = Idle]
            /\ UNCHANGED txn
       ELSE /\ txn' = [Begin(t) EXCEPT
                          !.stall_inventory = Insert(stall_inventory, nextInventoryId,
                                                     local[t].row),
                          !.nextInventoryId = nextInventoryId + 1]
            /\ pc' = [pc EXCEPT ![t] = "csi_commit"]
            /\ UNCHANGED <<resp, local>>
    /\ UNCHANGED <<orderTables, requestTables>>

\* lines 276-282: conn.commit() and the 201 response
csi_commit(t) ==
    /\ pc[t] = "csi_commit"
    /\ txn.holder = t
    /\ stall_inventory' = txn.stall_inventory
    /\ nextInventoryId' = txn.nextInventoryId
    /\ txn' = NoTxn
    /\ pc' = [pc EXCEPT ![t] = "idle"]
    /\ local' = [local EXCEPT ![t] = Idle]
    /\ resp' = Response("create_stall_inventory", 201, "")
    /\ UNCHANGED <<orders, nextOrderId, requestTables>>

\* update_stall_inventory, lines 301-410: authentication, the SELECT of the
\* row, validation and the SELECT of another row with the resulting key
usi_select(t, u, inv_id, d) ==
    /\ pc[t] = "idle"
    /\ LET err == update_stall_inventory_check(u, inv_id, d, stall_inventory) IN
       IF err # OK
       THEN /\ resp' = err
            /\ UNCHANGED <<pc, local>>
       ELSE /\ pc' = [pc EXCEPT ![t] = "usi_update"]
            /\ local' = [local EXCEPT ![t] =
                   [op |-> "update_stall_inventory", inv_id |-> inv_id, d |-> d]]
            /\ UNCHANGED resp
    /\ UNCHANGED <<orderTables, requestTables, txn>>

\* lines 412-417: UPDATE stall_inventory SET <fields> WHERE id = ?, which
\* begins the transaction; sqlite3.IntegrityError when the row's new key is
\* the key of another row by now
usi_update(t) ==
    /\ pc[t] = "usi_update"
    /\ txn = NoTxn
    /\ LET updated == UpdateInventoryFields(stall_inventory, local[t].inv_id, local[t].d) IN
       IF /\ local[t].inv_id \in DOMAIN stall_inventory
          /\ UniqueViolation(stall_inventory, updated[local[t].inv_id], local[t].inv_id)
       THEN /\ resp' = Response("update_stall_inventory", 500, "UNIQUE constraint failed")
            /\ pc' = [pc EXCEPT ![t] = "idle"]
            /\ local' = [local EXCEPT ![t] = Idle]
            /\ UNCHANGED txn
       ELSE /\ txn' = [Begin(t) EXCEPT !.stall_inventory = updated]
            /\ pc' = [pc EXCEPT ![t] = "usi_commit"]
            /\ UNCHANGED <<resp, local>>
    /\ UNCHANGED <<orderTables, requestTables>>

\* lines 418-423: conn.commit() and the 200 response
usi_commit(t) ==
    /\ pc[t] = "usi_commit"
    /\ txn.holder = t
    /\ stall_inventory' = txn.stall_inventory
    /\ txn' = NoTxn
    /\ pc' = [pc EXCEPT ![t] = "idle"]
    /\ local' = [local EXCEPT ![t] = Idle]
    /\ resp' = Response("update_stall_inventory", 200, "")
    /\ UNCHANGED <<nextInventoryId, orders, nextOrderId, requestTables>>

InitInventoryConc ==
    /\ InitOrderTables
    /\ InitRequestTables
    /\ pc = [t \in Threads |-> "idle"]
    /\ local = [t \in Threads |-> Idle]
    /\ txn = NoTxn
    /\ resp = NoResponse

NextInventoryConc ==
    \/ \E t \in Threads, u \in Callers :
           \E d \in BodiesFor(u, "disposer", CreateInventoryConcBodies) : csi_select(t, u, d)
    \/ \E t \in Threads : csi_insert(t)
    \/ \E t \in Threads : csi_commit(t)
    \/ \E t \in Threads, u \in Callers, i \in InventoryConcIds :
           \E d \in BodiesFor(u, "disposer", UpdateInventoryConcBodies) :
               usi_select(t, u, i, d)
    \/ \E t \in Threads : usi_update(t)
    \/ \E t \in Threads : usi_commit(t)
    \/ \E t \in Threads : lock_timeout(t)

SpecInventoryConc == InitInventoryConc /\ [][NextInventoryConc]_vars

UniqueInventoryKeys ==
    \A i, j \in DOMAIN stall_inventory :
        (/\ stall_inventory[i].stall_id = stall_inventory[j].stall_id
         /\ stall_inventory[i].product_id = stall_inventory[j].product_id
         /\ stall_inventory[i].size = stall_inventory[j].size
         /\ stall_inventory[i].type = stall_inventory[j].type) => i = j

\* C31: no two stall_inventory rows have the same (stall_id, product_id,
\* size, type), whatever the interleaving of create_stall_inventory and
\* update_stall_inventory; a call refused for the key, by the handler's
\* SELECT or by the table's UNIQUE constraint, leaves the table as it was.
C31_UniqueInventoryKey ==
    /\ []UniqueInventoryKeys
    /\ [][(/\ resp' # resp
           /\ resp'.op \in {"create_stall_inventory", "update_stall_inventory"}
           /\ resp'.code \in {400, 500}) =>
              UNCHANGED <<stall_inventory, nextInventoryId>>]_vars

\* two rows of stall 1 with different sizes, and a writer that passed the
\* handler's SELECT has just been stopped by the UNIQUE constraint
C31_Witness ==
    /\ Cardinality(DOMAIN stall_inventory) = 2
    /\ \A i \in DOMAIN stall_inventory : stall_inventory[i].stall_id = 1
    /\ resp.code = 500
    /\ resp.error = "UNIQUE constraint failed"

---------------------------------------------------------------------------
(* Termination under contention (SpecContentionFair)                       *)
(* create_order of the consumers beside update_stall_inventory of the      *)
(* disposers: the edits can take the write lock again and again.           *)

NextContention ==
    \/ \E t \in Threads, u \in Callers :
           \E d \in BodiesFor(u, "consumer", CreateOrderBodies) : co_select(t, u, d)
    \/ \E t \in Threads : co_insert(t)
    \/ \E t \in Threads : co_update(t)
    \/ \E t \in Threads : co_commit(t)
    \/ \E t \in Threads, u \in Callers, i \in InventoryConcIds :
           \E d \in BodiesFor(u, "disposer", UpdateInventoryConcBodies) :
               usi_select(t, u, i, d)
    \/ \E t \in Threads : usi_update(t)
    \/ \E t \in Threads : usi_commit(t)
    \/ \E t \in Threads : lock_timeout(t)

\* the next statement of the handler that thread t runs; a first write
\* returns with the lock or with 'database is locked'
HandlerStep(t) ==
    \/ co_insert(t) \/ usi_update(t) \/ lock_timeout(t)
    \/ co_update(t) \/ co_commit(t) \/ usi_commit(t)

\* every handler thread that has started keeps running
SpecContentionFair ==
    /\ InitOrderConc
    /\ [][NextContention]_vars
    /\ \A t \in Threads : WF_vars(HandlerStep(t))

\* C32: every handler that has started returns, with its result or with an
\* error, also while the other handlers take the write lock again and
\* again.
C32_EveryOperationReturns ==
    \A t \in Threads : (pc[t] # "idle") ~> (pc[t] = "idle")

\* thread 1 is at the INSERT of create_order while thread 2 holds the write
\* lock
C32_Witness ==
    /\ pc[1] = "co_insert"
    /\ txn # NoTxn
    /\ txn.holder = 2

---------------------------------------------------------------------------
(* Concurrent order lifecycle (SpecOrderLifeConc)                          *)
(* delete_order, update_order_status and consumer_receive_order of one     *)
(* Order, each handler on its own connection.                              *)

\* delete_order, lines 415-440: authentication and the SELECT of the order
do_select(t, u, order_id) ==
    /\ pc[t] = "idle"
    /\ LET err == delete_order_check(u, order_id, orders) IN
       IF err # OK
       THEN /\ resp' = err
            /\ UNCHANGED <<pc, local>>
       ELSE /\ pc' = [pc EXCEPT ![t] = "do_restore"]
            /\ local' = [local EXCEPT ![t] =
                   [op |-> "delete_order", order_id |-> order_id,
                    weight |-> orders[order_id].weight,
                    stall_inventory_id |-> orders[order_id].stall_inventory_id]]
            /\ UNCHANGED resp
    /\ UNCHANGED <<orderTables, requestTables, txn>>

\* lines 442-447: UPDATE stall_inventory SET stocks = stocks + ?, with the
\* weight and the row id read by the SELECT; it begins the transaction
do_restore(t) ==
    /\ pc[t] = "do_restore"
    /\ txn = NoTxn
    /\ txn' = [Begin(t) EXCEPT
                  !.stall_inventory = RestoreStocks(stall_inventory,
                                                    local[t].stall_inventory_id,
                                                    local[t].weight)]
    /\ pc' = [pc EXCEPT ![t] = "do_delete"]
    /\ UNCHANGED <<orderTables, requestTables, resp, local>>

\* line 449: DELETE FROM orders WHERE id = ?
do_delete(t) ==
    /\ pc[t] = "do_delete"
    /\ txn.holder = t
    /\ txn' = [txn EXCEPT !.orders = Remove(@, local[t].order_id)]
    /\ pc' = [pc EXCEPT ![t] = "do_commit"]
    /\ UNCHANGED <<orderTables, requestTables, resp, local>>

\* lines 450-452: conn.commit() and the 204 response
do_commit(t) ==
    /\ pc[t] = "do_commit"
    /\ txn.holder = t
    /\ stall_inventory' = txn.stall_inventory
    /\ orders' = txn.orders
    /\ txn' = NoTxn
    /\ pc' = [pc EXCEPT ![t] = "idle"]
    /\ local' = [local EXCEPT ![t] = Idle]
    /\ resp' = Response("delete_order", 204, "")
    /\ UNCHANGED <<nextInventoryId, nextOrderId, requestTables>>

\* update_order_status, lines 350-390: authentication, validation and the
\* SELECT of the order of the caller's stall
uos_select(t, u, order_id, status) ==
    /\ pc[t] = "idle"
    /\ LET err == update_order_status_check(u, order_id, status, orders, stall_inventory) IN
       IF err # OK
       THEN /\ resp' = err
            /\ UNCHANGED <<pc, local>>
       ELSE /\ pc' = [pc EXCEPT ![t] = "uos_update"]
            /\ local' = [local EXCEPT ![t] =
                   [op |-> "update_order_status", order_id |-> order_id, status |-> status]]
            /\ UNCHANGED resp
    /\ UNCHANGED <<orderTables, requestTables, txn>>

\* lines 392-395: UPDATE orders SET status = ? WHERE id = ?, which begins
\* the transaction
uos_update(t) ==
    /\ pc[t] = "uos_update"
    /\ txn = NoTxn
    /\ txn' = [Begin(t) EXCEPT
                  !.orders = SetOrderStatus(orders, local[t].order_id, local[t].status)]
    /\ pc' = [pc EXCEPT ![t] = "uos_commit"]
    /\ UNCHANGED <<orderTables, requestTables, resp, local>>

\* the response built from the row fetched before the commit: a TypeError
\* after the commit when the order is gone
StatusResponse(op, ords, order_id) ==
    IF order_id \in DOMAIN ords THEN Response(op, 200, "")
    ELSE Response(op, 500, "'NoneType' object is not subscriptable")

\* lines 397-403: the SELECT of the row, conn.commit() and the response
uos_commit(t) ==
    /\ pc[t] = "uos_commit"
    /\ txn.holder = t
    /\ orders' = txn.orders
    /\ txn' = NoTxn
    /\ pc' = [pc EXCEPT ![t] = "idle"]
    /\ local' = [local EXCEPT ![t] = Idle]
    /\ resp' = StatusResponse("update_order_status", txn.orders, local[t].order_id)
    /\ UNCHANGED <<stall_inventory, nextInventoryId, nextOrderId, requestTables>>

\* consumer_receive_order, lines 463-490: authentication and the SELECT of
\* the order
cro_select(t, u, order_id) ==
    /\ pc[t] = "idle"
    /\ LET err == consumer_receive_order_check(u, order_id, orders) IN
       IF err # OK
       THEN /\ resp' = err
            /\ UNCHANGED <<pc, local>>
       ELSE /\ pc' = [pc EXCEPT ![t] = "cro_update"]
            /\ local' = [local EXCEPT ![t] =
                   [op |-> "consumer_receive_order", order_id |-> order_id]]
            /\ UNCHANGED resp
    /\ UNCHANGED <<orderTables, requestTables, txn>>

\* lines 493-496: UPDATE orders SET status = 'completed' WHERE id = ?, which
\* begins the transaction
cro_update(t) ==
    /\ pc[t] = "cro_update"
    /\ txn = NoTxn
    /\ txn' = [Begin(t) EXCEPT
                  !.orders = SetOrderStatus(orders, local[t].order_id, "completed")]
    /\ pc' = [pc EXCEPT ![t] = "cro_commit"]
    /\ UNCHANGED <<orderTables, requestTables, resp, local>>

\* lines 498-504: the SELECT of the row, conn.commit() and the response
cro_commit(t) ==
    /\ pc[t] = "cro_commit"
    /\ txn.holder = t
    /\ orders' = txn.orders
    /\ txn' = NoTxn
    /\ pc' = [pc EXCEPT ![t] = "idle"]
    /\ local' = [local EXCEPT ![t] = Idle]
    /\ resp' = StatusResponse("consumer_receive_order", txn.orders, local[t].order_id)
    /\ UNCHANGED <<stall_inventory, nextInventoryId, nextOrderId, requestTables>>

\* the statuses the disposer sends in this specification
LifeStatusInputs == {"accepted", "rejected", "cancelled"}

\* one stock row of stall 1 from which consumer 5 has ordered: the order is
\* in processing and its weight is deducted
InitOrderLifeConc ==
    /\ \E w \in Quantities :
           /\ stall_inventory = (1 :> [stall_id |-> 1, product_id |-> 1, size |-> "Small",
                                       type |-> "Organic", stocks |-> 2 - w])
           /\ orders = (1 :> [consumer_id |-> 5, stall_inventory_id |-> 1, weight |-> w,
                              status |-> "processing"])
    /\ nextInventoryId = 2
    /\ nextOrderId = 2
    /\ InitRequestTables
    /\ pc = [t \in Threads |-> "idle"]
    /\ local = [t \in Threads |-> Idle]
    /\ txn = NoTxn
    /\ resp = NoResponse

NextOrderLifeConc ==
    \/ \E t \in Threads, u \in Callers, o \in OrderIds : do_select(t, u, o)
    \/ \E t \in Threads : do_restore(t)
    \/ \E t \in Threads : do_delete(t)
    \/ \E t \in Threads : do_commit(t)
    \/ \E t \in Threads, u \in Callers, o \in OrderIds :
           \E st \in BodiesFor(u, "disposer", LifeStatusInputs) : uos_select(t, u, o, st)
    \/ \E t \in Threads : uos_update(t)
    \/ \E t \in Threads : uos_commit(t)
    \/ \E t \in Threads, u \in Callers, o \in OrderIds : cro_select(t, u, o)
    \/ \E t \in Threads : cro_update(t)
    \/ \E t \in Threads : cro_commit(t)
    \/ \E t \in Threads : lock_timeout(t)

SpecOrderLifeConc == InitOrderLifeConc /\ [][NextOrderLifeConc]_vars

\* C33: the commit of a delete_order keeps stocks + (sum of the weights of
\* the existing orders) of every row: the weight of an Order is added to
\* the stocks once, also when two delete_order calls have both read the
\* Order in processing.
C33_RestoredAtMostOnce ==
    [][\A t \in Threads :
         do_commit(t) =>
             \A i \in DOMAIN stall_inventory :
                 Ledger(stall_inventory', orders', i) = Ledger(stall_inventory, orders, i)]_vars

\* C34: the commit of a consumer_receive_order writes completed over the
\* status accepted and over no other.
C34_ReceiveOverAcceptedOnly ==
    [][\A t \in Threads :
         (cro_commit(t) /\ local[t].order_id \in DOMAIN orders) =>
             orders[local[t].order_id].status = "accepted"]_vars

\* C35: the commit of a delete_order removes an Order, and returns its
\* weight to the stocks, only when the Order is in processing at that
\* moment.
C35_DeleteOnlyProcessingAtCommit ==
    [][\A t \in Threads :
         do_commit(t) =>
             /\ local[t].order_id \in DOMAIN orders
             /\ orders[local[t].order_id].status = "processing"]_vars

---------------------------------------------------------------------------
(* Requests of a deleted demand                                            *)

\* the requests whose demand row is gone
Orphaned(req, dem) == {r \in DOMAIN req : req[r].demand_id \notin DOMAIN dem}

---------------------------------------------------------------------------
(* Weights of linked supplies and demands                                  *)

\* C37: for every Request whose Demand exists, the weight of its Supply is
\* at most the weight of the Demand.
C37_SupplyWithinDemand ==
    \A r \in DOMAIN requests :
        (requests[r].demand_id \in DOMAIN demands /\ requests[r].supply_id \in DOMAIN supplies) =>
            supplies[requests[r].supply_id].weight <= demands[requests[r].demand_id].weight

---------------------------------------------------------------------------
(* Orders and their stock row                                              *)

\* C38: every Order references a stall_inventory row that exists.
C38_OrderRowExists ==
    \A o \in DOMAIN orders : orders[o].stall_inventory_id \in DOMAIN stall_inventory

---------------------------------------------------------------------------
(* Frame of delete_request                                                 *)

\* C39: a delete_request step removes the addressed Request row and nothing
\* else: every Supply (the one it referenced included), every Demand and
\* every other Request stay as they were.
C39_DeleteRequestFrame ==
    [][\A u \in Farmers, r \in DOMAIN requests :
         (resp'.op = "delete_request" /\ delete_request(u, r)) =>
             /\ DOMAIN requests' = DOMAIN requests \ {r}
             /\ \A other \in DOMAIN requests \ {r} : requests'[other] = requests[other]
             /\ supplies' = supplies
             /\ requests[r].supply_id \in DOMAIN supplies'
             /\ demands' = demands
             /\ UNCHANGED <<nextRequestId, nextSupplyId, nextDemandId>>]_vars

\* a request has just been deleted: its supply is left with no request,
\* beside the request of another supply and their demand
C39_Witness ==
    /\ resp.op = "delete_request"
    /\ \E s \in DOMAIN supplies : \A r \in DOMAIN requests : requests[r].supply_id # s
    /\ \E r \in DOMAIN requests :
           /\ requests[r].supply_id \in DOMAIN supplies
           /\ requests[r].demand_id \in DOMAIN demands

---------------------------------------------------------------------------
(* Fields of an order                                                      *)

\* C40: weight, consumer_id and stall_inventory_id of an Order stay as
\* create_order set them for as long as the Order exists, and a delete_order
\* step returns exactly that weight to the stocks of the Order's row.
C40_OrderFieldsFixed ==
    /\ [][\A o \in DOMAIN orders :
            o \in DOMAIN orders' =>
                /\ orders'[o].weight = orders[o].weight
                /\ orders'[o].consumer_id = orders[o].consumer_id
                /\ orders'[o].stall_inventory_id = orders[o].stall_inventory_id]_vars
    /\ [][\A u \in Callers, d \in CreateOrderBodies :
            (resp'.op = "create_order" /\ create_order(u, d)) =>
                /\ orders'[nextOrderId].weight = d.weight
                /\ orders'[nextOrderId].consumer_id = u
                /\ orders'[nextOrderId].stall_inventory_id = d.stall_inventory_id]_vars
    /\ [][\A u \in Consumers, o \in DOMAIN orders :
            (/\ resp'.op = "delete_order"
             /\ delete_order(u, o)
             /\ orders[o].stall_inventory_id \in DOMAIN stall_inventory) =>
                stall_inventory'[orders[o].stall_inventory_id].stocks
                    = stall_inventory[orders[o].stall_inventory_id].stocks + orders[o].weight]_vars

\* an order of weight 2 went through update_order_status and was received
C40_Witness ==
    /\ resp.op = "consumer_receive_order"
    /\ \E o \in DOMAIN orders :
           /\ orders[o].status = "completed"
           /\ orders[o].weight = 2

===========================================================================
